---- MODULE Spec2Model ----
(***************************************************************************)
(* A model of the DSP (data stream processing) runtime: the broadcast      *)
(* cache, the router, the framed TCP handlers, the Kafka producer wrapper  *)
(* and the signal daemon.  Each subsystem has its own variables, its own   *)
(* actions and its own specification; a subsystem's specification leaves   *)
(* the variables of the others unchanged.                                  *)
(***************************************************************************)
EXTENDS Integers, Sequences, FiniteSets, TLC

VARIABLES
    \* ---- broadcast cache (include/dsp/cache.hh)
    m_interfaces,   \* cache::m_interfaces: name -> attached sink
    cacheMsg,       \* argument of the latest cache.send
    cacheRet,       \* what each sink's send did in the latest cache.send
    cacheCalls,     \* per name: number of sink.send calls of the latest cache.send
    cacheGot,       \* per name: the message the sink was handed (NoMsg if none)
    cacheResult,    \* outcome of the latest cache.send: none/true/false/thrown
    getCall,        \* the latest cache.get_northbound<T>(name) and its outcome
    \* ---- router (libdsp/libdsp/router.hh)
    m_rules,        \* router::m_rules
    routeIn,        \* argument of the latest route call (NoMsg before the first)
    routeOut,       \* its result
    \* ---- TCP connection with a framed handler (src/svc/handler.cc)
    handlerType,    \* factory::m_type: passthrough or telemetry
    streamFrames,   \* the frames the peer sends on this connection, in order
    delivered,      \* number of bytes of the stream read from the socket so far
    buffer,         \* the connection's framed read buffer
    tcpPc,          \* position of the connection task: read / drain / dropped
    n_messages,     \* handler_frame::m_metrics.n_messages
    n_bytes,        \* handler_frame::m_metrics.n_bytes
    stats,          \* the metrics registry: (name, label key, label value) -> value
    northbound,     \* the messages handed to cache.send, in order
    consumedLog,    \* the non-zero values process returned, in order
    lastCall,       \* the latest process call: its result, raised or not
    \* ---- Kafka producer (libdsp/libdsp/kafka.hpp, include/dsp/kafka.hh)
    prodVariant,    \* which copy of kf::producer is in use
    queue,          \* the client's internal queue of wire records
    m_topics,       \* producer::m_topics: subject -> cached topic handle
    prodPc,         \* position of the sending thread: idle / send_poll
    prodCall,       \* the latest try_send / send call and how it ended
    handlesCreated, \* number of rd_kafka_topic_new calls the producer has made
    usedSubjects,   \* subjects for which producer::topic has been called
    \* ---- signals and daemon (include/dsp/daemon.hh)
    g_sigint,       \* receipt counters of the four signals
    g_sigterm,
    g_sigusr1,
    g_sigusr2,
    aborted,        \* std::abort has been called
    m_alive,        \* daemon::m_alive
    m_function,     \* a watchdog is attached
    daemonPc,       \* position of daemon::start
    tickStop,       \* what has_signal_stop answered in the latest tick
    lastWatchdog,   \* outcome of the watchdog in the latest tick, if invoked
    sleepsAfterStop, \* sleeps begun with a stop signal already delivered
    \* ---- service (include/dsp/dsp.hh)
    hasSouthbound,  \* service::m_southbound != nullptr (a Kafka listener)
    svcSinks,       \* names of the sinks attached to service::m_cache
    sinkAlive,      \* per sink: producer::m_keep_alive
    lsn_alive,      \* kafka_listener::m_alive
    svcPc,          \* position of the thread that called service::start
    worker,         \* the listener thread: none / running / finished
    workerJoinable, \* the std::jthread in m_worker_threads is joinable
    stopCalls,      \* number of service::stop calls begun
    stopTodo,       \* calls the running service::stop has still to make
    stopLog,        \* calls the latest service::stop has made, in order
    lastStop,       \* the latest stop() call on a component and what it did
    stoppedOnce,    \* components on which a stop() call has completed
    \* ---- Kafka listener loop (libdsp/libdsp/interfaces.hpp)
    lsnPc,          \* position of the listener function
    lsnBatch,       \* views of the current batch not yet handed to the handler
    fetched,        \* records the client has handed out, in order
    handed,         \* records whose view handler::process has been called with
    forwarded,      \* records that reached do_process
    consumes,       \* number of consume calls
    consumesAfterStop, \* consume calls begun with m_alive already false
    lastConsume,    \* the latest consume: the client's answer, the views returned
    lastProcess,    \* the latest handler::process call and what it did
    \* ---- message views (libdsp/libdsp/kafka.hpp, detail::message_view)
    viewObjs,       \* the view objects: alive or not, owning or not, m_message_ptr
    released,       \* per record: number of rd_kafka_message_destroy calls
    nextRecord,     \* the next record consume will return
    \* ---- producer::topic under concurrent send (libdsp/libdsp/kafka.hpp)
    mtPc,           \* per thread: position inside topic()
    mtName,         \* per thread: the name topic() was called with
    mtHandle,       \* per thread: the handle it made or was returned
    mtCalls,        \* per thread: calls of topic() made so far
    mtRace,         \* m_topics was accessed while another thread modified it
    mtCreatedFor,   \* per subject: number of rd_kafka_topic_new calls
    mtDestroyed,    \* handles destroyed by being overwritten in m_topics
    \* ---- metrics_registry under concurrent use (include/dsp/metrics.hh)
    m_counters,     \* names with an entry in the counter map
    m_gauges,       \* names with an entry in the gauge map
    m_registry,     \* families registered with prometheus: <<op, name>>
    counterValue,   \* per name: value of the counter
    gaugeValue,     \* per name: value of the gauge
    metPc,          \* per thread: position inside increment / set
    metCall,        \* per thread: the call being executed
    metCalls,       \* per thread: calls made so far
    metTorn,        \* per thread: its emplace overlapped another map access
    metRace,        \* a map was accessed while another thread modified it
    metCrashed,     \* the process crashed on a corrupted map
    metIncrements,  \* per name: increment calls that returned
    \* ---- token_bucket (include/dsp/token_bucket.hh)
    m_limit,        \* the bucket's limit
    m_rate,         \* tokens per second
    m_tokens,       \* stored tokens; negative while in debt
    m_last_replenished, \* time of construction or of the last replenish, ms
    clock,          \* nova::now(), ms since construction
    granted,        \* tokens granted by the take calls that returned
    surplus,        \* see surplus_after
    tbContinuous,   \* only take(1) calls so far, back to back
    tbReplenishCalls, \* direct calls of replenish()
    lastTake,       \* the last take: tokens asked, ms waited, tokens added
    \* ---- producer: poller thread and destruction (libdsp/libdsp/kafka.hpp)
    m_keep_alive,   \* producer::m_keep_alive
    pollerPc,       \* the poller thread: test / polling / exited
    pollElapsed,    \* seconds the current rd_kafka_poll has lasted
    dtorPc,         \* alive / destroying / destroyed
    dtorTodo,       \* the steps of the destructor still to run
    flushElapsed,   \* seconds the destructor's flush has lasted
    handleDestroyed, \* rd_kafka_destroy was called on m_producer
    polledDestroyed, \* the poller used the handle after its destruction
    sinceStop,      \* seconds the poller has run on after the flag was cleared
    lifeLog,        \* flush / stop / join / destroy, in the order they happened
    \* ---- the example service's Kafka message handler (src/svc/main.cc)
    m_stats,        \* kafka_message_handler::m_stats has a value
    exAtEof,        \* partitions whose end was reported and that gave no record since
    exProcessed,    \* messages handed to the handler
    exRaises,       \* SIGINTs the handler raised
    exDataSinceRaise, \* records processed since the last raise
    exLast          \* the last call of process: kind, partition, raised, g_sigint before

cacheVars  == <<m_interfaces, cacheMsg, cacheRet, cacheCalls, cacheGot, cacheResult, getCall>>
routerVars == <<m_rules, routeIn, routeOut>>
tcpVars    == <<handlerType, streamFrames, delivered, buffer, tcpPc, n_messages, n_bytes,
                stats, northbound, consumedLog, lastCall>>
prodVars   == <<prodVariant, queue, m_topics, prodPc, prodCall, handlesCreated, usedSubjects>>
daemonVars == <<g_sigint, g_sigterm, g_sigusr1, g_sigusr2, aborted, m_alive, m_function,
                daemonPc, tickStop, lastWatchdog, sleepsAfterStop>>

svcVars    == <<hasSouthbound, svcSinks, sinkAlive, lsn_alive, svcPc, worker, workerJoinable,
                stopCalls, stopTodo, stopLog, lastStop, stoppedOnce>>

lsnVars    == <<lsnPc, lsnBatch, fetched, handed, forwarded, consumes, consumesAfterStop,
                lastConsume, lastProcess>>

viewVars   == <<viewObjs, released, nextRecord>>
metVars    == <<m_counters, m_gauges, m_registry, counterValue, gaugeValue, metPc, metCall,
                 metCalls, metTorn, metRace, metCrashed, metIncrements>>
tbVars     == <<m_limit, m_rate, m_tokens, m_last_replenished, clock, granted, surplus,
                 tbContinuous, tbReplenishCalls, lastTake>>
lifeVars   == <<m_keep_alive, pollerPc, pollElapsed, dtorPc, dtorTodo, flushElapsed,
                 handleDestroyed, polledDestroyed, sinceStop, lifeLog>>
mtVars     == <<mtPc, mtName, mtHandle, mtCalls, mtRace, mtCreatedFor, mtDestroyed>>
exVars     == <<m_stats, exAtEof, exProcessed, exRaises, exDataSinceRaise, exLast>>

\* ------------------------------------------------------------------------
\* Messages (include/dsp/cache.hh, struct message)
\* ------------------------------------------------------------------------

NoMsg == [none |-> TRUE]

NoProps == [k \in {} |-> ""]

message(key, subject, properties, payload) ==
    [key |-> key, subject |-> subject, properties |-> properties, payload |-> payload]

\* ------------------------------------------------------------------------
\* Broadcast cache
\* ------------------------------------------------------------------------

MaxSinks == 3

SinkNames == {"main-nb", "aux-nb", "custom-nb"}
SinkIds   == 1..MaxSinks

\* What a northbound_interface::send can do: return true, return false, or
\* raise (the Kafka sink forwards to producer.try_send, which throws).
SinkOutcomes == {"true", "false", "throw"}

CacheMessages ==
    { message(<< >>, "t1", NoProps, <<65>>),
      message(<<55, 50>>, "heartbeats", [type |-> "heartbeat"], <<1, 2>>) }

\* The iteration orders a std::unordered_map over the names may take.
Orders(S) == { s \in [1..Cardinality(S) -> S] : \A i, j \in 1..Cardinality(S) : s[i] = s[j] => i = j }

\* A loop that stops at the first sink that returned false.
RECURSIVE send_loop_break(_, _, _, _, _)
send_loop_break(order, ret, i, success, calls) ==
    IF i > Len(order) \/ ~success
    THEN [result |-> IF success THEN "true" ELSE "false", calls |-> calls]
    ELSE LET x == order[i]
             c == [calls EXCEPT ![x] = @ + 1]
         IN  IF ret[x] = "throw"
             THEN [result |-> "thrown", calls |-> c]
             ELSE send_loop_break(order, ret, i + 1, ret[x] = "true", c)

\* cache::send: the loop over m_interfaces from position i on.
RECURSIVE send_loop(_, _, _, _, _)
send_loop(order, ret, i, success, calls) ==
    IF i > Len(order)
    THEN [result |-> IF success THEN "true" ELSE "false", calls |-> calls]
    ELSE LET x == order[i]
             c == [calls EXCEPT ![x] = @ + 1]
         IN  IF ret[x] = "throw"
             THEN [result |-> "thrown", calls |-> c]
             ELSE send_loop(order, ret, i + 1, IF ret[x] = "false" THEN FALSE ELSE success, c)

\* The concrete classes of the sinks that get attached.
SinkTypes == {"kafka_producer", "custom_sink"}

\* The concrete class of a sink object.
sink_type(sink) == IF sink % 2 = 1 THEN "kafka_producer" ELSE "custom_sink"

\* A get_northbound that casts without a check.
get_northbound_static_cast(T, name, interfaces) ==
    IF name \notin DOMAIN interfaces
    THEN [name |-> name, type |-> T, result |-> "unknown_interface", sink |-> 0]
    ELSE [name |-> name, type |-> T, result |-> "returned", sink |-> interfaces[name]]

\* cache::get_northbound<T>(name)
get_northbound(T, name, interfaces) ==
    IF name \notin DOMAIN interfaces
    THEN [name |-> name, type |-> T, result |-> "unknown_interface", sink |-> 0]
    ELSE IF sink_type(interfaces[name]) # T
         THEN [name |-> name, type |-> T, result |-> "type_mismatch", sink |-> 0]
         ELSE [name |-> name, type |-> T, result |-> "returned", sink |-> interfaces[name]]

NoGet == [name |-> "", type |-> "", result |-> "none", sink |-> 0]

CacheInit ==
    /\ m_interfaces = [n \in {} |-> 0]
    /\ cacheMsg = NoMsg
    /\ cacheRet = [n \in {} |-> "true"]
    /\ cacheCalls = [n \in SinkNames |-> 0]
    /\ cacheGot = [n \in SinkNames |-> NoMsg]
    /\ cacheResult = "none"
    /\ getCall = NoGet

\* cache::attach_northbound: unordered_map::insert keeps an existing entry.
attach_northbound(name, sink) ==
    /\ \A n \in DOMAIN m_interfaces : m_interfaces[n] # sink
    /\ m_interfaces' = IF name \in DOMAIN m_interfaces
                       THEN m_interfaces
                       ELSE [n \in DOMAIN m_interfaces \cup {name} |->
                                IF n = name THEN sink ELSE m_interfaces[n]]
    /\ UNCHANGED <<cacheMsg, cacheRet, cacheCalls, cacheGot, cacheResult, getCall>>

\* cache::send(msg); ret is what each attached sink's send does when called,
\* order the iteration order of the map.
cache_send(msg, ret, order) ==
    LET r == send_loop(order, ret, 1, TRUE, [n \in SinkNames |-> 0])
    IN  /\ cacheMsg' = msg
        /\ cacheRet' = ret
        /\ cacheCalls' = r.calls
        /\ cacheGot' = [n \in SinkNames |-> IF r.calls[n] > 0 THEN msg ELSE NoMsg]
        /\ cacheResult' = r.result
        /\ UNCHANGED <<m_interfaces, getCall>>

CacheAttach == \E name \in SinkNames, sink \in SinkIds : attach_northbound(name, sink)

CacheSend ==
    \E msg \in CacheMessages, ret \in [DOMAIN m_interfaces -> SinkOutcomes],
       order \in Orders(DOMAIN m_interfaces) :
        cache_send(msg, ret, order)

CacheGetNorthbound ==
    \E T \in SinkTypes, name \in SinkNames :
        /\ getCall' = get_northbound(T, name, m_interfaces)
        /\ UNCHANGED <<m_interfaces, cacheMsg, cacheRet, cacheCalls, cacheGot, cacheResult>>

CacheNext == CacheAttach \/ CacheSend

\* Attaching sinks and looking them up.
CacheGetNext == CacheAttach \/ CacheGetNorthbound

\* ------------------------------------------------------------------------
\* Router
\* ------------------------------------------------------------------------

Everything == <<"*", "*">>

rule_t(priority, condition, action, subject) ==
    [name |-> "", priority |-> priority, condition |-> condition, action |-> action,
     matcher |-> "exact", destination |-> "main-nb", subject |-> subject]

\* router::router(): the two default rules, in push_back order.
DefaultRules ==
    << rule_t(1, <<"type", "heartbeat">>, "allow", "heartbeats"),
       rule_t(2, <<"type", "heartbeat">>, "deny", "dev-test") >>

\* A match that ignores the rule's action.
match_ignores_action(value, rule) == value = rule.condition[2]

\* router::match
match(value, rule) ==
    IF rule.action = "allow"
    THEN value = rule.condition[2]
    ELSE value # rule.condition[2]

\* A default_match that treats an absent property as a mismatch for both actions.
default_match_never(rule) == FALSE

\* router::default_match
default_match(rule) == rule.action = "deny"

\* The body of the loop of router::route for one rule.
is_allowed(msg, rule) ==
    IF rule.condition = Everything
    THEN match("*", rule)
    ELSE IF rule.condition[1] \in DOMAIN msg.properties
         THEN match(msg.properties[rule.condition[1]], rule)
         ELSE default_match(rule)

\* A route that walks the rules from the last to the first.
RECURSIVE route_from_reversed(_, _, _)
route_from_reversed(rules, msg, i) ==
    IF i > Len(rules) THEN << >>
    ELSE route_from_reversed(rules, msg, i + 1)
            \o (IF is_allowed(msg, rules[i])
                THEN << [msg EXCEPT !.subject = rules[i].subject] >>
                ELSE << >>)

\* router::route
RECURSIVE route_from(_, _, _)
route_from(rules, msg, i) ==
    IF i > Len(rules) THEN << >>
    ELSE (IF is_allowed(msg, rules[i])
          THEN << [msg EXCEPT !.subject = rules[i].subject] >>
          ELSE << >>) \o route_from(rules, msg, i + 1)

route(rules, msg) == route_from(rules, msg, 1)

MaxPayload == 2

RouterKeys     == { << >>, <<55, 50>> }
RouterSubjects == { "", "heartbeats", "other" }
RouterProps ==
    { NoProps, [type |-> "heartbeat"], [type |-> "dyn"],
      [origin |-> "x"], [type |-> "heartbeat", origin |-> "x"], [type |-> "dyn", origin |-> "heartbeat"] }
RouterPayloads == { << >> } \cup { [i \in 1..n |-> 65] : n \in 1..MaxPayload }

RouterMessages ==
    { message(k, s, p, d) : k \in RouterKeys, s \in RouterSubjects, p \in RouterProps, d \in RouterPayloads }

RouterInit ==
    /\ m_rules = DefaultRules
    /\ routeIn = NoMsg
    /\ routeOut = << >>

RouterRoute ==
    \E msg \in RouterMessages :
        /\ routeIn' = msg
        /\ routeOut' = route(m_rules, msg)
        /\ UNCHANGED m_rules

RouterNext == RouterRoute

\* ------------------------------------------------------------------------
\* Byte views (nova::data_view, as the handlers use it)
\* ------------------------------------------------------------------------

Min(a, b) == IF a < b THEN a ELSE b

\* data_view::as_number<std::uint16_t>(pos), little-endian; pos counts from 0
as_u16(d, pos) == d[pos + 1] + 256 * d[pos + 2]

RECURSIVE as_le(_, _, _)
as_le(d, pos, n) == IF n = 0 THEN 0 ELSE d[pos + 1] + 256 * as_le(d, pos + 1, n - 1)

\* data_view::as_number<std::uint64_t>(pos)
as_u64(d, pos) == as_le(d, pos, 8)

\* data_view::subview(pos, length): length bytes from pos on, cut at the end
\* of the view
subview(d, pos, length) == SubSeq(d, pos + 1, Min(pos + length, Len(d)))

\* data_view::subview(pos): from pos to the end of the view
subview_from(d, pos) == SubSeq(d, pos + 1, Len(d))

\* std::to_string of an unsigned number, as character codes
RECURSIVE to_string(_)
to_string(n) == IF n < 10 THEN << 48 + n >> ELSE to_string(n \div 10) \o << 48 + (n % 10) >>

\* ------------------------------------------------------------------------
\* Metrics registry
\* ------------------------------------------------------------------------

NoLabel == <<"", "">>

\* metrics_registry::increment(name, value, labels)
increment(st, name, value, label) ==
    LET k == <<name, label[1], label[2]>>
    IN  IF k \in DOMAIN st
        THEN [st EXCEPT ![k] = @ + value]
        ELSE [x \in DOMAIN st \cup {k} |-> IF x = k THEN value ELSE st[x]]

LabelLoadShed  == <<"drop_type", "load_shed">>
LabelNotNeeded == <<"drop_type", "not_needed">>
LabelSubject(subject) == <<"subject", subject>>

\* ------------------------------------------------------------------------
\* The application handlers (src/svc/handler.cc)
\* ------------------------------------------------------------------------

LengthPrefixSize == 2
MinimumLength == LengthPrefixSize + 2

TypeHeartbeat  == 0
TypeDynMessage == 1

\* app::context::topic of the passthrough handler
AppTopic == "t1"

\* dat::message::length
dat_length(data) == as_u16(data, 0)

\* dat::message::payload
dat_payload(data) == subview(data, LengthPrefixSize, dat_length(data))

\* dat::telemetry::m_data and dat::telemetry::payload_telemetry
telemetry_data(data) == dat_payload(data)
payload_telemetry(data) == subview_from(telemetry_data(data), 2)

\* deserialize(dat::heartbeat): "Client ID: {} Sequence : {} Unix epoch: {}"
deserialize(hb) ==
    <<67, 108, 105, 101, 110, 116, 32, 73, 68, 58, 32>> \o to_string(as_u64(hb, 0))
    \o <<32, 83, 101, 113, 117, 101, 110, 99, 101, 32, 58, 32>> \o to_string(as_u64(hb, 8))
    \o <<32, 85, 110, 105, 120, 32, 101, 112, 111, 99, 104, 58, 32>> \o to_string(as_u64(hb, 16))

\* The result of a do_process call: the value returned (0 when it raised),
\* whether it raised, the metrics after it and the messages it handed to
\* cache.send.
Result(ret, thrown, st, sent) == [ret |-> ret, thrown |-> thrown, stats |-> st, sent |-> sent]

\* A send loop that counts a message the cache refused as processed.
RECURSIVE send_routed_counts_refused(_, _, _, _, _)
send_routed_counts_refused(messages, res, i, st, sent) ==
    IF i > Len(messages)
    THEN [thrown |-> FALSE, stats |-> st, sent |-> sent]
    ELSE LET m == messages[i]
         IN  IF res[i] = "throw"
             THEN [thrown |-> TRUE, stats |-> st, sent |-> Append(sent, m)]
             ELSE send_routed_counts_refused(messages, res, i + 1,
                      increment(increment(st, "process_messages_total", 1, LabelSubject(m.subject)),
                                "process_bytes_total", Len(m.payload), LabelSubject(m.subject)),
                      Append(sent, m))

\* handler::send: the loop over the routed messages from position i on.
\* res[i] is what cache.send does for the i-th routed message.
RECURSIVE send_routed(_, _, _, _, _)
send_routed(messages, res, i, st, sent) ==
    IF i > Len(messages)
    THEN [thrown |-> FALSE, stats |-> st, sent |-> sent]
    ELSE LET m == messages[i]
         IN  IF res[i] = "throw"
             THEN [thrown |-> TRUE, stats |-> st, sent |-> Append(sent, m)]
             ELSE IF res[i] = "true"
             THEN send_routed(messages, res, i + 1,
                      increment(increment(st, "process_messages_total", 1, LabelSubject(m.subject)),
                                "process_bytes_total", Len(m.payload), LabelSubject(m.subject)),
                      Append(sent, m))
             ELSE send_routed(messages, res, i + 1,
                      increment(increment(st, "drop_messages_total", 1, LabelLoadShed),
                                "drop_bytes_total", Len(m.payload), LabelLoadShed),
                      Append(sent, m))

\* handler::send
handler_send(msg, res, st) ==
    LET messages == route(m_rules, msg)
        r == send_routed(messages, res, 1, st, << >>)
    IN  IF r.thrown \/ messages # << >>
        THEN r
        ELSE [r EXCEPT !.stats = increment(increment(st, "drop_messages_total", 1, LabelNotNeeded),
                                           "drop_bytes_total", Len(msg.payload), LabelNotNeeded)]

\* handler::do_process(dat::heartbeat)
do_process_heartbeat(data, res, st) ==
    LET hb == payload_telemetry(data)
    IN  IF Len(hb) < 24
        THEN [thrown |-> TRUE, stats |-> st, sent |-> << >>]   \* as_number out of the view
        ELSE handler_send(message(to_string(as_u64(hb, 0)), "", [type |-> "heartbeat"], deserialize(hb)),
                          res, st)

\* handler::do_process(dat::dyn_message)
do_process_dyn_message(data, res, st) ==
    handler_send(message(<< >>, "", NoProps, subview_from(payload_telemetry(data), 0)), res, st)

\* A do_process that skips a frame of unknown type instead of raising.
handler_do_process_skips_unknown(data, res, st) ==
    IF Len(data) < MinimumLength THEN Result(0, FALSE, st, << >>)
    ELSE IF Len(data) < dat_length(data) THEN Result(0, FALSE, st, << >>)
    ELSE LET L  == dat_length(data)
             s1 == increment(increment(st, "receive_messages_total", 1, NoLabel),
                             "receive_bytes_total", L, NoLabel)
         IN  IF Len(telemetry_data(data)) < 2
             THEN Result(0, TRUE, s1, << >>)
             ELSE LET type == as_u16(telemetry_data(data), 0)
                      r == IF type = TypeHeartbeat THEN do_process_heartbeat(data, res, s1)
                           ELSE IF type = TypeDynMessage THEN do_process_dyn_message(data, res, s1)
                           ELSE [thrown |-> FALSE, stats |-> s1, sent |-> << >>]
                  IN  IF r.thrown THEN Result(0, TRUE, r.stats, r.sent)
                      ELSE Result(L, FALSE, r.stats, r.sent)

\* handler::do_process(nova::data_view)
handler_do_process(data, res, st) ==
    IF Len(data) < MinimumLength THEN Result(0, FALSE, st, << >>)
    ELSE IF Len(data) < dat_length(data) THEN Result(0, FALSE, st, << >>)
    ELSE LET L  == dat_length(data)
             s1 == increment(increment(st, "receive_messages_total", 1, NoLabel),
                             "receive_bytes_total", L, NoLabel)
         IN  IF Len(telemetry_data(data)) < 2
             THEN Result(0, TRUE, s1, << >>)                    \* type(): as_number out of the view
             ELSE LET type == as_u16(telemetry_data(data), 0)
                      r == IF type = TypeHeartbeat THEN do_process_heartbeat(data, res, s1)
                           ELSE IF type = TypeDynMessage THEN do_process_dyn_message(data, res, s1)
                           ELSE [thrown |-> TRUE, stats |-> s1, sent |-> << >>]  \* Unsupported message type
                  IN  IF r.thrown THEN Result(0, TRUE, r.stats, r.sent)
                      ELSE Result(L, FALSE, r.stats, r.sent)

\* passthrough_handler::do_process(dat::message)
passthrough_do_process_message(data, res, st) ==
    LET msg == message(<< >>, AppTopic, NoProps, dat_payload(data))
    IN  IF res[1] = "throw" THEN Result(0, TRUE, st, << msg >>)
        ELSE IF res[1] = "true" THEN Result(dat_length(data), FALSE, st, << msg >>)
        ELSE Result(dat_length(data), FALSE,
                    increment(increment(st, "drop_messages_total", 1, LabelLoadShed),
                              "drop_bytes_total", dat_length(data), LabelLoadShed),
                    << msg >>)

\* passthrough_handler::do_process(nova::data_view)
passthrough_do_process(data, res, st) ==
    IF Len(data) < LengthPrefixSize THEN Result(0, FALSE, st, << >>)
    ELSE IF Len(data) < dat_length(data) THEN Result(0, FALSE, st, << >>)
    ELSE passthrough_do_process_message(data, res,
             increment(increment(st, "receive_messages_total", 1, NoLabel),
                       "receive_bytes_total", dat_length(data), NoLabel))

do_process(type, data, res, st) ==
    IF type = "passthrough" THEN passthrough_do_process(data, res, st)
    ELSE handler_do_process(data, res, st)

\* The most cache.send calls one process call can make: one for the
\* passthrough handler, one per routing rule for the telemetry handler.
MaxSends(type) == IF type = "passthrough" THEN 1 ELSE Len(m_rules)

\* A process that counts a message even when do_process returned 0.
process_counts_always(type, data, res, st, nm, nb) ==
    LET r == do_process(type, data, res, st)
    IN  [ret |-> r.ret, thrown |-> r.thrown, stats |-> r.stats, sent |-> r.sent,
         n_messages |-> IF r.thrown THEN nm ELSE nm + 1,
         n_bytes |-> nb + r.ret]

\* tcp::handler_frame::process
process(type, data, res, st, nm, nb) ==
    IF data = << >>
    THEN [ret |-> 0, thrown |-> FALSE, stats |-> st, sent |-> << >>, n_messages |-> nm, n_bytes |-> nb]
    ELSE LET r == do_process(type, data, res, st)
         IN  IF r.thrown \/ r.ret = 0
             THEN [ret |-> 0, thrown |-> r.thrown, stats |-> r.stats, sent |-> r.sent,
                   n_messages |-> nm, n_bytes |-> nb]
             ELSE [ret |-> r.ret, thrown |-> FALSE, stats |-> r.stats, sent |-> r.sent,
                   n_messages |-> nm + 1, n_bytes |-> nb + r.ret]

\* ------------------------------------------------------------------------
\* Frames on the wire
\* ------------------------------------------------------------------------

u16le(n) == << n % 256, n \div 256 >>

RECURSIVE le(_, _)
le(n, width) == IF width = 0 THEN << >> ELSE << n % 256 >> \o le(n \div 256, width - 1)

Body(n) == [i \in 1..n |-> 64 + i]

\* u16 length | bytes[length-2]
pass_frame(L) == u16le(L) \o Body(L - 2)

\* u16 length | u16 type | bytes[length-4]  (tools/tcp-client.cc generate_data)
dyn_frame(L) == u16le(L) \o u16le(TypeDynMessage) \o Body(L - 4)

\* svc/sim.cc serialize(heartbeat)
hb_frame(client_id, sequence, timestamp) ==
    u16le(28) \o u16le(TypeHeartbeat) \o le(client_id, 8) \o le(sequence, 8) \o le(timestamp, 8)

PassLengths == {2, 3, 5}
DynLengths  == {4, 6}

\* Frames a peer can send that the handler's framing does not cover: a length
\* prefix below the header size, an unknown type.
PassMalformed == { u16le(0), u16le(1) }
TelMalformed  == { u16le(0) \o u16le(TypeDynMessage), u16le(3) \o u16le(TypeDynMessage), u16le(4) \o u16le(2) }

WellFormed(type, f) ==
    /\ Len(f) >= LengthPrefixSize
    /\ dat_length(f) = Len(f)
    /\ type = "telemetry" =>
          /\ Len(f) >= MinimumLength
          /\ as_u16(f, 2) \in {TypeHeartbeat, TypeDynMessage}
          /\ as_u16(f, 2) = TypeHeartbeat => Len(f) = 28

MaxFrames == 2

FramesFor(type) ==
    IF type = "passthrough"
    THEN { pass_frame(L) : L \in PassLengths } \cup PassMalformed
    ELSE { dyn_frame(L) : L \in DynLengths } \cup TelMalformed

\* The streams with a heartbeat frame (28 bytes): alone, before and after a
\* dyn_message frame.
HeartbeatStreams ==
    { << hb_frame(72, 0, 5) >>, << hb_frame(72, 0, 5), dyn_frame(6) >>, << dyn_frame(4), hb_frame(72, 0, 5) >> }

StreamsFor(type) ==
    UNION { [1..n -> FramesFor(type)] : n \in 0..MaxFrames }
        \cup (IF type = "telemetry" THEN HeartbeatStreams ELSE {})

RECURSIVE Flatten(_)
Flatten(fs) == IF fs = << >> THEN << >> ELSE Head(fs) \o Flatten(Tail(fs))

Stream == Flatten(streamFrames)

\* ------------------------------------------------------------------------
\* The connection task
\* ------------------------------------------------------------------------

TcpInit ==
    /\ handlerType \in {"passthrough", "telemetry"}
    /\ streamFrames \in StreamsFor(handlerType)
    /\ delivered = 0
    /\ buffer = << >>
    /\ tcpPc = "read"
    /\ n_messages = 0
    /\ n_bytes = 0
    /\ stats = [k \in {} |-> 0]
    /\ northbound = << >>
    /\ consumedLog = << >>
    /\ lastCall = [ret |-> 0, thrown |-> FALSE, res |-> << >>]

\* One read of the connection task: k more bytes of the stream arrive and are
\* appended to the buffer, which is then drained.
TcpRead ==
    /\ tcpPc = "read"
    /\ LET s == Stream
       IN  \E k \in 1..(Len(s) - delivered) :
              /\ buffer' = buffer \o SubSeq(s, delivered + 1, delivered + k)
              /\ delivered' = delivered + k
    /\ tcpPc' = "drain"
    /\ UNCHANGED <<handlerType, streamFrames, n_messages, n_bytes, stats, northbound,
                   consumedLog, lastCall>>

\* One turn of the drain loop: process is called with the buffered bytes; the
\* buffer is advanced by what it returns, and the loop goes on until process
\* returns 0 or the buffer is empty.  A handler exception drops the connection.
TcpProcess ==
    /\ tcpPc = "drain"
    /\ \E res \in [1..MaxSends(handlerType) -> SinkOutcomes] :
        LET r == process(handlerType, buffer, res, stats, n_messages, n_bytes)
        IN  /\ stats' = r.stats
            /\ northbound' = northbound \o r.sent
            /\ n_messages' = r.n_messages
            /\ n_bytes' = r.n_bytes
            /\ lastCall' = [ret |-> r.ret, thrown |-> r.thrown, res |-> SubSeq(res, 1, Len(r.sent))]
            /\ consumedLog' = IF r.ret > 0 THEN Append(consumedLog, r.ret) ELSE consumedLog
            /\ buffer' = IF r.thrown THEN buffer ELSE SubSeq(buffer, r.ret + 1, Len(buffer))
            /\ tcpPc' = IF r.thrown THEN "dropped"
                        ELSE IF r.ret = 0 \/ r.ret >= Len(buffer) THEN "read"
                        ELSE "drain"
    /\ UNCHANGED <<handlerType, streamFrames, delivered>>

TcpNext == TcpRead \/ TcpProcess

\* ------------------------------------------------------------------------
\* Kafka producer (libdsp/libdsp/kafka.hpp and include/dsp/kafka.hh)
\* ------------------------------------------------------------------------

\* queue.buffering.max.messages of the client
MaxQueue == 2

\* queue.buffering.max.kbytes of the client, in bytes
MaxQueueBytes == 3

\* The most enqueue attempts of one send call the model follows.
MaxAttempts == 3

\* The two copies of kf::producer in the repository; they differ in what
\* send_impl does when rd_kafka_header_add fails.
ProducerVariants == {"kafka.hpp", "kafka.hh"}

FatalStatuses == {"MSG_SIZE_TOO_LARGE", "UNKNOWN_PARTITION", "UNKNOWN_TOPIC"}

\* Bytes a message takes in the client's queue: key and payload.
message_bytes(msg) == Len(msg.key) + Len(msg.payload)

\* Bytes held by the queued wire records.
RECURSIVE queue_bytes(_)
queue_bytes(q) ==
    IF q = << >> THEN 0 ELSE Len(Head(q).key) + Len(Head(q).value) + queue_bytes(Tail(q))

\* The client refuses a message when its queue holds
\* queue.buffering.max.messages messages or when the message would take it
\* over queue.buffering.max.kbytes.
queue_full(q, msg) ==
    Len(q) >= MaxQueue \/ queue_bytes(q) + message_bytes(msg) > MaxQueueBytes

\* producer::queue_size: rd_kafka_outq_len
queue_size(q) == Len(q)

\* What rd_kafka_produce / rd_kafka_producev can answer: the message is
\* accepted only while the queue has room, QUEUE_FULL is answered only when
\* it has none (by count or by bytes); FATAL stands for the statuses the wrapper names nowhere
\* (RD_KAFKA_RESP_ERR__FATAL, __STATE, __INVALID_ARG, ...).
ProduceAnswers(q, msg) ==
    (IF queue_full(q, msg) THEN {"QUEUE_FULL"} ELSE {"NO_ERROR"})
        \cup FatalStatuses \cup {"FATAL"}

\* What rd_kafka_header_add can answer.
HeaderAnswers == {"NO_ERROR", "READ_ONLY"}

ProducerMessages ==
    { message(<< >>, "t1", NoProps, <<65>>),
      message(<<55, 50>>, "heartbeats", [type |-> "heartbeat"], <<66>>) }

\* The wire record the client copies the message into (RD_KAFKA_MSG_F_COPY).
wire_record(msg, headers) ==
    [topic |-> msg.subject, key |-> msg.key, value |-> msg.payload, headers |-> headers]

\* A topic() that makes a new handle on every call.
topic_always_new(name, topics, created) ==
    [topics |-> [n \in DOMAIN topics \cup {name} |->
                    IF n = name THEN created + 1 ELSE topics[n]],
     created |-> created + 1,
     handle |-> created + 1]

\* producer::topic(name): the cached handle, made by rd_kafka_topic_new on
\* the first use of the name.  Handles are numbered in order of creation.
topic(name, topics, created) ==
    IF name \in DOMAIN topics
    THEN [topics |-> topics, created |-> created, handle |-> topics[name]]
    ELSE [topics |-> [n \in DOMAIN topics \cup {name} |->
                         IF n = name THEN created + 1 ELSE topics[n]],
          created |-> created + 1,
          handle |-> created + 1]

\* producer::send_impl.  hdr is the answer of rd_kafka_header_add, answer the
\* one of the produce call.  status "none": no produce call was made.
send_impl(variant, msg, hdr, answer, q, topics, created) ==
    IF msg.properties # NoProps /\ hdr # "NO_ERROR" /\ variant = "kafka.hpp"
    THEN [threw |-> TRUE, status |-> "none", queue |-> q, topics |-> topics,
          created |-> created, handle |-> 0]
    ELSE LET headers == IF hdr = "NO_ERROR" THEN msg.properties ELSE NoProps
             t == topic(msg.subject, topics, created)
         IN  [threw |-> FALSE,
              status |-> answer,
              queue |-> IF answer = "NO_ERROR" THEN Append(q, wire_record(msg, headers)) ELSE q,
              topics |-> t.topics,
              created |-> t.created,
              handle |-> t.handle]

\* A try_send that reports every failed attempt as a full queue.
try_send_result_any_error(status) ==
    IF status = "NO_ERROR" THEN "true" ELSE "false"

\* producer::try_send: the switch on the status of the attempt
try_send_result(status) ==
    IF status \in FatalStatuses THEN "thrown"
    ELSE IF status = "QUEUE_FULL" THEN "false"
    ELSE "true"

\* producer::send: the switch and the test on the status of one attempt
send_result(status) ==
    IF status \in FatalStatuses THEN "thrown"
    ELSE IF status = "QUEUE_FULL" THEN "running"
    ELSE "returned"

NoCall == [op |-> "none", msg |-> NoMsg, attempts |-> 0, status |-> "none",
           hdr |-> "NO_ERROR", enqueued |-> 0, result |-> "none", handle |-> 0]

ProducerInit ==
    /\ prodVariant \in ProducerVariants
    /\ queue = << >>
    /\ m_topics = [n \in {} |-> 0]
    /\ handlesCreated = 0
    /\ usedSubjects = {}
    /\ prodPc = "idle"
    /\ prodCall = NoCall

\* producer::try_send(msg)
ProducerTrySend ==
    /\ prodPc = "idle"
    /\ \E msg \in ProducerMessages, hdr \in HeaderAnswers : \E answer \in ProduceAnswers(queue, msg) :
        LET r == send_impl(prodVariant, msg, hdr, answer, queue, m_topics, handlesCreated)
        IN  /\ queue' = r.queue
            /\ m_topics' = r.topics
            /\ handlesCreated' = r.created
            /\ usedSubjects' = IF r.threw THEN usedSubjects ELSE usedSubjects \cup {msg.subject}
            /\ prodCall' = [op |-> "try_send", msg |-> msg, handle |-> r.handle,
                            attempts |-> IF r.threw THEN 0 ELSE 1,
                            status |-> r.status,
                            hdr |-> IF msg.properties = NoProps THEN "NO_ERROR" ELSE hdr,
                            enqueued |-> Len(r.queue) - Len(queue),
                            result |-> IF r.threw THEN "thrown" ELSE try_send_result(r.status)]
    /\ UNCHANGED <<prodVariant, prodPc>>

\* producer::send(msg): the call and the first turn of its loop
ProducerSend ==
    /\ prodPc = "idle"
    /\ \E msg \in ProducerMessages, hdr \in HeaderAnswers : \E answer \in ProduceAnswers(queue, msg) :
        LET r == send_impl(prodVariant, msg, hdr, answer, queue, m_topics, handlesCreated)
            res == IF r.threw THEN "thrown" ELSE send_result(r.status)
        IN  /\ queue' = r.queue
            /\ m_topics' = r.topics
            /\ handlesCreated' = r.created
            /\ usedSubjects' = IF r.threw THEN usedSubjects ELSE usedSubjects \cup {msg.subject}
            /\ prodCall' = [op |-> "send", msg |-> msg, handle |-> r.handle,
                            attempts |-> IF r.threw THEN 0 ELSE 1,
                            status |-> r.status,
                            hdr |-> IF msg.properties = NoProps THEN "NO_ERROR" ELSE hdr,
                            enqueued |-> Len(r.queue) - Len(queue),
                            result |-> res]
            /\ prodPc' = IF res = "running" THEN "send_poll" ELSE "idle"
    /\ UNCHANGED prodVariant

\* producer::send: rd_kafka_poll (100 ms) has returned, the next turn of the loop
ProducerSendRetry ==
    /\ prodPc = "send_poll"
    /\ prodCall.attempts < MaxAttempts
    /\ \E hdr \in HeaderAnswers, answer \in ProduceAnswers(queue, prodCall.msg) :
        LET r == send_impl(prodVariant, prodCall.msg, hdr, answer, queue, m_topics, handlesCreated)
            res == IF r.threw THEN "thrown" ELSE send_result(r.status)
        IN  /\ queue' = r.queue
            /\ m_topics' = r.topics
            /\ handlesCreated' = r.created
            /\ usedSubjects' = IF r.threw THEN usedSubjects
                               ELSE usedSubjects \cup {prodCall.msg.subject}
            /\ prodCall' = [prodCall EXCEPT
                                !.handle = r.handle,
                                !.attempts = IF r.threw THEN @ ELSE @ + 1,
                                !.status = r.status,
                                !.hdr = IF prodCall.msg.properties = NoProps THEN "NO_ERROR" ELSE hdr,
                                !.enqueued = @ + Len(r.queue) - Len(queue),
                                !.result = res]
            /\ prodPc' = IF res = "running" THEN "send_poll" ELSE "idle"
    /\ UNCHANGED prodVariant

\* The client hands the oldest queued record to the broker: room in the queue.
KafkaDeliver ==
    /\ queue # << >>
    /\ queue' = Tail(queue)
    /\ UNCHANGED <<prodVariant, m_topics, prodPc, prodCall, handlesCreated, usedSubjects>>

ProducerNext == ProducerTrySend \/ ProducerSend \/ ProducerSendRetry \/ KafkaDeliver

\* ------------------------------------------------------------------------
\* Signals and the daemon loop (include/dsp/daemon.hh)
\* ------------------------------------------------------------------------

\* The most SIGTERM, SIGUSR1 and SIGUSR2 receipts the model follows (each).
MaxSignals == 2

WatchdogOutcomes == {"true", "false", "nova_exception", "other_exception"}

\* A handler that escalates one receipt earlier.
sigint_aborts_early(n) == n > 0

\* signal_handler::handle_signal_int: the test on the value fetch_add returned
sigint_aborts(n) == n > 1

\* daemon::has_signal_stop
has_signal_stop(sigint, sigterm) == sigint > 0 \/ sigterm > 0

DaemonInit ==
    /\ g_sigint = 0
    /\ g_sigterm = 0
    /\ g_sigusr1 = 0
    /\ g_sigusr2 = 0
    /\ aborted = FALSE
    /\ m_alive = TRUE
    /\ m_function \in BOOLEAN
    /\ daemonPc = "constructed"
    /\ tickStop = FALSE
    /\ lastWatchdog = "none"
    /\ sleepsAfterStop = 0

\* signal_handler::handle_signal_int
SignalInt ==
    /\ ~aborted
    /\ LET n == g_sigint
       IN  /\ g_sigint' = n + 1
           /\ aborted' = sigint_aborts(n)
    /\ UNCHANGED <<g_sigterm, g_sigusr1, g_sigusr2, m_alive, m_function, daemonPc,
                   tickStop, lastWatchdog, sleepsAfterStop>>

\* signal_handler::handle_signal_term
SignalTerm ==
    /\ ~aborted
    /\ g_sigterm < MaxSignals
    /\ g_sigterm' = g_sigterm + 1
    /\ UNCHANGED <<g_sigint, g_sigusr1, g_sigusr2, aborted, m_alive, m_function, daemonPc,
                   tickStop, lastWatchdog, sleepsAfterStop>>

\* signal_handler::handle_signal_usr1
SignalUsr1 ==
    /\ ~aborted
    /\ g_sigusr1 < MaxSignals
    /\ g_sigusr1' = g_sigusr1 + 1
    /\ UNCHANGED <<g_sigint, g_sigterm, g_sigusr2, aborted, m_alive, m_function, daemonPc,
                   tickStop, lastWatchdog, sleepsAfterStop>>

\* signal_handler::handle_signal_usr2
SignalUsr2 ==
    /\ ~aborted
    /\ g_sigusr2 < MaxSignals
    /\ g_sigusr2' = g_sigusr2 + 1
    /\ UNCHANGED <<g_sigint, g_sigterm, g_sigusr1, aborted, m_alive, m_function, daemonPc,
                   tickStop, lastWatchdog, sleepsAfterStop>>

\* daemon::start is called
DaemonStart ==
    /\ ~aborted
    /\ daemonPc = "constructed"
    /\ daemonPc' = "head"
    /\ UNCHANGED <<g_sigint, g_sigterm, g_sigusr1, g_sigusr2, aborted, m_alive, m_function,
                   tickStop, lastWatchdog, sleepsAfterStop>>

\* daemon::start: while (m_alive)
DaemonLoopHead ==
    /\ ~aborted
    /\ daemonPc = "head"
    /\ daemonPc' = IF m_alive THEN "signals" ELSE "stopped"
    /\ UNCHANGED <<g_sigint, g_sigterm, g_sigusr1, g_sigusr2, aborted, m_alive, m_function,
                   tickStop, lastWatchdog, sleepsAfterStop>>

\* daemon::start: if (has_signal_stop()) stop();
DaemonCheckSignals ==
    /\ ~aborted
    /\ daemonPc = "signals"
    /\ LET stop == has_signal_stop(g_sigint, g_sigterm)
       IN  /\ tickStop' = stop
           /\ m_alive' = IF stop THEN FALSE ELSE m_alive
    /\ daemonPc' = "watchdog"
    /\ UNCHANGED <<g_sigint, g_sigterm, g_sigusr1, g_sigusr2, aborted, m_function, lastWatchdog,
                   sleepsAfterStop>>

\* daemon::start: the watchdog, if one is attached
DaemonWatchdog ==
    /\ ~aborted
    /\ daemonPc = "watchdog"
    /\ IF m_function
       THEN \E outcome \in WatchdogOutcomes :
               /\ lastWatchdog' = outcome
               /\ m_alive' = IF outcome \in {"false", "nova_exception"} THEN FALSE ELSE m_alive
               /\ daemonPc' = IF outcome = "other_exception" THEN "escaped" ELSE "sleep"
       ELSE /\ lastWatchdog' = "none"
            /\ daemonPc' = "sleep"
            /\ UNCHANGED m_alive
    /\ sleepsAfterStop' = IF daemonPc' = "sleep" /\ has_signal_stop(g_sigint, g_sigterm)
                          THEN sleepsAfterStop + 1 ELSE sleepsAfterStop
    /\ UNCHANGED <<g_sigint, g_sigterm, g_sigusr1, g_sigusr2, aborted, m_function, tickStop>>

\* daemon::start: sleep_for(interval) is over
DaemonSleep ==
    /\ ~aborted
    /\ daemonPc = "sleep"
    /\ daemonPc' = "head"
    /\ UNCHANGED <<g_sigint, g_sigterm, g_sigusr1, g_sigusr2, aborted, m_alive, m_function,
                   tickStop, lastWatchdog, sleepsAfterStop>>

DaemonNext ==
    \/ SignalInt \/ SignalTerm \/ SignalUsr1 \/ SignalUsr2
    \/ DaemonStart \/ DaemonLoopHead \/ DaemonCheckSignals \/ DaemonWatchdog \/ DaemonSleep

\* ------------------------------------------------------------------------
\* The service: start, the daemon it runs, stop (include/dsp/dsp.hh)
\* ------------------------------------------------------------------------

\* The most service.stop() calls the model follows (start_daemon makes the first).
MaxStopCalls == 2

\* The northbound sinks a service may have been built with.
ServiceSinkSets == { S \in SUBSET SinkNames : Cardinality(S) <= 2 }

\* A stop that detaches the workers before it tells anybody to stop.
stop_steps_detach_first(hasSb, order) ==
    <<"detach">> \o (IF hasSb THEN <<"southbound">> ELSE << >>) \o order

\* service::stop: the calls it makes, in order; order is the iteration order
\* of cache::m_interfaces inside cache::stop.
stop_steps(hasSb, order) ==
    (IF hasSb THEN <<"southbound">> ELSE << >>) \o order \o <<"detach">>

NoStop == [target |-> "none", repeat |-> FALSE, changed |-> FALSE, threw |-> FALSE]

ServiceInit ==
    /\ hasSouthbound \in BOOLEAN
    /\ svcSinks \in ServiceSinkSets
    /\ sinkAlive = [n \in svcSinks |-> TRUE]
    /\ lsn_alive = TRUE
    /\ svcPc = "built"
    /\ worker = "none"
    /\ workerJoinable = FALSE
    /\ stopCalls = 0
    /\ stopTodo = << >>
    /\ stopLog = << >>
    /\ lastStop = NoStop
    /\ stoppedOnce = {}

\* service::start up to the call of daemon::start: the listener thread is
\* spawned if a southbound interface was built, the watchdog is attached.
ServiceStart ==
    /\ svcPc = "built" /\ ~aborted
    /\ daemonPc = "constructed"
    /\ worker' = IF hasSouthbound THEN "running" ELSE "none"
    /\ workerJoinable' = hasSouthbound
    /\ m_function' = TRUE
    /\ daemonPc' = "head"
    /\ svcPc' = "daemon"
    /\ UNCHANGED <<hasSouthbound, svcSinks, sinkAlive, lsn_alive, stopCalls, stopTodo, stopLog,
                   lastStop, stoppedOnce>>
    /\ UNCHANGED <<g_sigint, g_sigterm, g_sigusr1, g_sigusr2, aborted, m_alive, tickStop,
                   lastWatchdog, sleepsAfterStop>>

\* daemon::start running inside service::start_daemon.  The attached closure
\* (dsp.hh 298-305) returns true or raises; it never returns false.
ServiceDaemonStep ==
    /\ svcPc = "daemon"
    /\ \/ DaemonLoopHead
       \/ DaemonCheckSignals
       \/ DaemonSleep
       \/ (hasSouthbound /\ DaemonWatchdog /\ lastWatchdog' # "false")
    /\ UNCHANGED <<hasSouthbound, svcSinks, sinkAlive, lsn_alive, svcPc, worker, workerJoinable,
                   stopCalls, stopTodo, stopLog, lastStop, stoppedOnce>>

\* The attached closure on a service without a southbound interface: it calls
\* m_southbound->update through a null pointer.  The call either faults or
\* goes on as if it had done nothing.
ServiceWatchdogNull ==
    /\ svcPc = "daemon" /\ ~hasSouthbound
    /\ daemonPc = "watchdog" /\ ~aborted
    /\ \/ /\ svcPc' = "crashed"
          /\ UNCHANGED daemonVars
       \/ /\ DaemonWatchdog /\ lastWatchdog' # "false"
          /\ UNCHANGED svcPc
    /\ UNCHANGED <<hasSouthbound, svcSinks, sinkAlive, lsn_alive, worker, workerJoinable,
                   stopCalls, stopTodo, stopLog, lastStop, stoppedOnce>>

\* A signal arrives while the service exists.
ServiceSignal ==
    /\ svcPc # "crashed"
    /\ (SignalInt \/ SignalTerm)
    /\ UNCHANGED <<hasSouthbound, svcSinks, sinkAlive, lsn_alive, svcPc, worker, workerJoinable,
                   stopCalls, stopTodo, stopLog, lastStop, stoppedOnce>>

\* An exception of the watchdog that daemon::start did not catch leaves
\* start_daemon and service::start; stop() is not reached.
ServiceStartEscapes ==
    /\ svcPc = "daemon" /\ daemonPc = "escaped" /\ ~aborted
    /\ svcPc' = "start_threw"
    /\ UNCHANGED <<hasSouthbound, svcSinks, sinkAlive, lsn_alive, worker, workerJoinable,
                   stopCalls, stopTodo, stopLog, lastStop, stoppedOnce>>
    /\ UNCHANGED daemonVars

\* service::stop is entered: by start_daemon once daemon::start has returned,
\* or by the application after service::start has returned.
ServiceStopBegin ==
    /\ ~aborted
    /\ \/ svcPc = "daemon" /\ daemonPc = "stopped"
       \/ svcPc = "returned"
    /\ stopCalls < MaxStopCalls
    /\ \E order \in Orders(svcSinks) :
          stopTodo' = stop_steps(hasSouthbound, order)
    /\ stopCalls' = stopCalls + 1
    /\ stopLog' = << >>
    /\ lastStop' = [target |-> "service", repeat |-> "service" \in stoppedOnce,
                    changed |-> FALSE, threw |-> FALSE]
    /\ svcPc' = "stopping"
    /\ UNCHANGED <<hasSouthbound, svcSinks, sinkAlive, lsn_alive, worker, workerJoinable,
                   stoppedOnce>>
    /\ UNCHANGED daemonVars

\* service::stop: its next call.  std::jthread::detach raises
\* std::system_error when the thread is not joinable.
ServiceStopStep ==
    /\ svcPc = "stopping" /\ stopTodo # << >> /\ ~aborted
    /\ LET step == Head(stopTodo)
           last == Len(stopTodo) = 1
           throws == step = "detach" /\ worker # "none" /\ ~workerJoinable
       IN  /\ lsn_alive' = IF step = "southbound" THEN FALSE ELSE lsn_alive
           /\ sinkAlive' = IF step \in svcSinks THEN [sinkAlive EXCEPT ![step] = FALSE]
                           ELSE sinkAlive
           /\ workerJoinable' = IF step = "detach" THEN FALSE ELSE workerJoinable
           /\ stopLog' = Append(stopLog, step)
           /\ stopTodo' = IF throws THEN << >> ELSE Tail(stopTodo)
           /\ lastStop' = [lastStop EXCEPT
                             !.changed = @ \/ lsn_alive' # lsn_alive \/ sinkAlive' # sinkAlive
                                           \/ workerJoinable' # workerJoinable,
                             !.threw = throws]
           /\ svcPc' = IF throws THEN "stop_threw" ELSE IF last THEN "returned" ELSE "stopping"
           /\ stoppedOnce' = stoppedOnce
                               \cup (IF step = "southbound" THEN {"listener"} ELSE {})
                               \cup (IF step \in svcSinks THEN {step} ELSE {})
                               \cup (IF step = "detach" THEN {"cache"} ELSE {})
                               \cup (IF last /\ ~throws THEN {"service"} ELSE {})
    /\ UNCHANGED <<hasSouthbound, svcSinks, worker, stopCalls>>
    /\ UNCHANGED daemonVars

\* The listener thread finds kafka_listener::m_alive false at its loop test
\* and returns.
WorkerExit ==
    /\ worker = "running" /\ ~lsn_alive /\ svcPc # "crashed" /\ ~aborted
    /\ worker' = "finished"
    /\ UNCHANGED <<hasSouthbound, svcSinks, sinkAlive, lsn_alive, svcPc, workerJoinable,
                   stopCalls, stopTodo, stopLog, lastStop, stoppedOnce>>
    /\ UNCHANGED daemonVars

\* kafka_listener::stop, called by the application
ListenerStop ==
    /\ hasSouthbound /\ svcPc \in {"built", "returned"} /\ ~aborted
    /\ lsn_alive' = FALSE
    /\ lastStop' = [target |-> "listener", repeat |-> "listener" \in stoppedOnce,
                    changed |-> lsn_alive, threw |-> FALSE]
    /\ stoppedOnce' = stoppedOnce \cup {"listener"}
    /\ UNCHANGED <<hasSouthbound, svcSinks, sinkAlive, svcPc, worker, workerJoinable,
                   stopCalls, stopTodo, stopLog>>
    /\ UNCHANGED daemonVars

\* cache::stop, called by the application: every attached sink's stop
CacheStop ==
    /\ svcPc \in {"built", "returned"} /\ ~aborted
    /\ sinkAlive' = [n \in svcSinks |-> FALSE]
    /\ lastStop' = [target |-> "cache", repeat |-> "cache" \in stoppedOnce,
                    changed |-> sinkAlive' # sinkAlive, threw |-> FALSE]
    /\ stoppedOnce' = stoppedOnce \cup {"cache"} \cup svcSinks
    /\ UNCHANGED <<hasSouthbound, svcSinks, lsn_alive, svcPc, worker, workerJoinable,
                   stopCalls, stopTodo, stopLog>>
    /\ UNCHANGED daemonVars

\* kafka_producer::stop -> producer::stop of one sink, called by the application
ProducerStop ==
    /\ svcPc \in {"built", "returned"} /\ ~aborted
    /\ \E n \in svcSinks :
        /\ sinkAlive' = [sinkAlive EXCEPT ![n] = FALSE]
        /\ lastStop' = [target |-> n, repeat |-> n \in stoppedOnce,
                        changed |-> sinkAlive[n], threw |-> FALSE]
        /\ stoppedOnce' = stoppedOnce \cup {n}
    /\ UNCHANGED <<hasSouthbound, svcSinks, lsn_alive, svcPc, worker, workerJoinable,
                   stopCalls, stopTodo, stopLog>>
    /\ UNCHANGED daemonVars

ServiceNext ==
    \/ ServiceStart \/ ServiceDaemonStep \/ ServiceWatchdogNull \/ ServiceSignal
    \/ ServiceStartEscapes \/ ServiceStopBegin \/ ServiceStopStep \/ WorkerExit
    \/ ListenerStop \/ CacheStop \/ ProducerStop

\* ------------------------------------------------------------------------
\* Kafka consumer, message views, the listener loop
\* (libdsp/libdsp/kafka.hpp, libdsp/libdsp/interfaces.hpp, include/dsp/handler.hh)
\* ------------------------------------------------------------------------

\* kafka_cfg::batch_size of the listener
BatchSize == 2

\* The most consume calls of one listener the model follows.
MaxConsumes == 2

\* rd_kafka_message_t::err of the records the client hands out: a data record,
\* the end of a partition, any other error event.
RecordErrs == {"NO_ERROR", "PARTITION_EOF", "TRANSPORT"}

NullPtr == [null |-> TRUE]

\* The record with the given sequence number in the order the client hands
\* records out.
record(offset, err) == [offset |-> offset, err |-> err]

\* message_view(RdKafkaMessage*)
message_view(ptr) == [m_message_ptr |-> ptr]

\* message_view::ok
ok(view) == view.m_message_ptr.err = "NO_ERROR"

\* message_view::eof
eof(view) == view.m_message_ptr.err = "PARTITION_EOF"

\* What rd_kafka_consume_batch_queue can answer for a batch of the given size:
\* -1, or the number of records it stored, with their err fields.
ConsumeAnswers(batch_size) ==
    { [n |-> -1, errs |-> << >>] }
        \cup { [n |-> Len(e), errs |-> e] : e \in UNION { [1..j -> RecordErrs] : j \in 0..batch_size } }

\* consumer::consume: the vector of views it returns for an answer of the
\* client; next is the sequence number of the first record handed out.
consume(batch_size, answer, next) ==
    LET messages == IF answer.n = -1
                    THEN [i \in 1..batch_size |-> NullPtr]
                    ELSE [i \in 1..answer.n |-> record(next + i - 1, answer.errs[i])]
    IN  [i \in 1..Len(messages) |-> message_view(messages[i])]

\* A frame that hands the end of a partition to the application too.
handler_frame_forwards_eof(view) ==
    IF view.m_message_ptr = NullPtr THEN "fault"
    ELSE IF ~ok(view) /\ ~eof(view) THEN "logged"
    ELSE "do_process"

\* kf::handler_frame::process: what it does with a view.  Reading err through
\* a null m_message_ptr faults.
handler_frame_process(view) ==
    IF view.m_message_ptr = NullPtr THEN "fault"
    ELSE IF ~ok(view) THEN "logged"
    ELSE "do_process"

\* What the application's do_process can do: return, or raise (cache.send
\* reaching producer.try_send, which throws on a fatal status).
DoProcessOutcomes == {"return", "throw"}

NoProcess == [view |-> message_view(NullPtr), did |-> "none", outcome |-> "none"]
NoConsume == [n |-> 0, returned |-> << >>, called |-> FALSE]

ListenerInit ==
    /\ lsnPc = "idle"
    /\ lsnBatch = << >>
    /\ fetched = << >>
    /\ handed = << >>
    /\ forwarded = << >>
    /\ consumes = 0
    /\ consumesAfterStop = 0
    /\ lastConsume = NoConsume
    /\ lastProcess = NoProcess

\* The listener function starts: subscribe
LsnStart ==
    /\ lsnPc = "idle"
    /\ lsnPc' = "head"
    /\ UNCHANGED <<lsnBatch, fetched, handed, forwarded, consumes, consumesAfterStop,
                   lastConsume, lastProcess>>

\* while (m_alive)
LsnLoopTest ==
    /\ lsnPc = "head"
    /\ lsnPc' = IF lsn_alive THEN "consume" ELSE "returned"
    /\ UNCHANGED <<lsnBatch, fetched, handed, forwarded, consumes, consumesAfterStop,
                   lastConsume, lastProcess>>

\* m_kafka_client.consume(m_batch_size, m_poll_timeout)
LsnConsume ==
    /\ lsnPc = "consume"
    /\ consumes < MaxConsumes
    /\ \E answer \in ConsumeAnswers(BatchSize) :
        /\ LET views == consume(BatchSize, answer, Len(fetched) + 1)
           IN  /\ lsnBatch' = views
               /\ fetched' = fetched \o [i \in 1..Len(answer.errs) |->
                                            record(Len(fetched) + i, answer.errs[i])]
               /\ lastConsume' = [n |-> answer.n, returned |-> views, called |-> TRUE]
    /\ consumes' = consumes + 1
    /\ consumesAfterStop' = IF lsn_alive THEN consumesAfterStop ELSE consumesAfterStop + 1
    /\ lsnPc' = "batch"
    /\ UNCHANGED <<handed, forwarded, lastProcess>>

\* One turn of the for loop: m_handler->process(message).  Nothing in the
\* listener function catches: an exception leaving process ends the thread
\* function, which terminates the process.
LsnProcess ==
    /\ lsnPc = "batch" /\ lsnBatch # << >>
    /\ LET view == Head(lsnBatch)
           did == handler_frame_process(view)
       IN  \E outcome \in DoProcessOutcomes :
            /\ did # "do_process" => outcome = "return"
            /\ handed' = IF did = "fault" THEN handed ELSE Append(handed, view.m_message_ptr)
            /\ forwarded' = IF did = "do_process" THEN Append(forwarded, view.m_message_ptr)
                            ELSE forwarded
            /\ lastProcess' = [view |-> view, did |-> did, outcome |-> outcome]
            /\ lsnPc' = IF did = "fault" THEN "crashed"
                        ELSE IF outcome = "throw" THEN "terminated"
                        ELSE "batch"
            /\ lsnBatch' = Tail(lsnBatch)
    /\ UNCHANGED <<fetched, consumes, consumesAfterStop, lastConsume>>

\* The for loop is over, back to the loop test
LsnBatchDone ==
    /\ lsnPc = "batch" /\ lsnBatch = << >>
    /\ lsnPc' = "head"
    /\ UNCHANGED <<lsnBatch, fetched, handed, forwarded, consumes, consumesAfterStop,
                   lastConsume, lastProcess>>

\* kafka_listener::stop called from another thread while the process lives
LsnStop ==
    /\ lsnPc \notin {"terminated", "crashed"}
    /\ ListenerStop

ListenerNext ==
    \/ (LsnStart \/ LsnLoopTest \/ LsnConsume \/ LsnProcess \/ LsnBatchDone)
          /\ UNCHANGED svcVars /\ UNCHANGED daemonVars
    \/ LsnStop /\ UNCHANGED lsnVars

\* ------------------------------------------------------------------------
\* Ownership of consumed records (libdsp/libdsp/kafka.hpp, detail::message_view)
\* ------------------------------------------------------------------------

\* The most view objects alive at a time, and the most records consumed.
MaxViews == 3
MaxRecords == 2

ViewSlots == 1..MaxViews

\* m_message_ptr values: 0 is nullptr, 1..MaxRecords are records returned by
\* consume, DeliveryRecord is the message a delivery report callback is given.
nullptr == 0
DeliveryRecord == MaxRecords + 1

NoView == [live |-> FALSE, owning |-> FALSE, m_message_ptr |-> nullptr]

\* ~message_view: how many rd_kafka_message_destroy calls it makes
destroy_releases(view) ==
    IF view.owning /\ view.m_message_ptr # nullptr THEN 1 ELSE 0

ViewInit ==
    /\ viewObjs = [s \in ViewSlots |-> NoView]
    /\ released = [r \in 1..DeliveryRecord |-> 0]
    /\ nextRecord = 1

\* consume wraps a record the client returned: message_view_owned{ msg }
ViewWrapConsumed ==
    /\ nextRecord <= MaxRecords
    /\ \E s \in ViewSlots :
        /\ ~viewObjs[s].live
        /\ viewObjs' = [viewObjs EXCEPT ![s] =
                           [live |-> TRUE, owning |-> TRUE, m_message_ptr |-> nextRecord]]
    /\ nextRecord' = nextRecord + 1
    /\ UNCHANGED released

\* The delivery report callback wraps the const message it is given
ViewWrapDelivery ==
    /\ \E s \in ViewSlots :
        /\ ~viewObjs[s].live
        /\ viewObjs' = [viewObjs EXCEPT ![s] =
                           [live |-> TRUE, owning |-> FALSE, m_message_ptr |-> DeliveryRecord]]
    /\ UNCHANGED <<released, nextRecord>>

\* message_view(message_view&& rhs)
ViewMoveConstruct ==
    /\ \E d, s \in ViewSlots :
        /\ ~viewObjs[d].live /\ viewObjs[s].live
        /\ viewObjs' = [viewObjs EXCEPT
                           ![d] = [live |-> TRUE, owning |-> viewObjs[s].owning,
                                   m_message_ptr |-> viewObjs[s].m_message_ptr],
                           ![s] = [@ EXCEPT !.m_message_ptr = nullptr]]
    /\ UNCHANGED <<released, nextRecord>>

\* message_view& operator=(message_view&& rhs); d = s is self-assignment
ViewMoveAssign ==
    /\ \E d, s \in ViewSlots :
        /\ viewObjs[d].live /\ viewObjs[s].live
        /\ viewObjs[d].owning = viewObjs[s].owning
        /\ LET afterCopy == [viewObjs EXCEPT ![d] =
                                [@ EXCEPT !.m_message_ptr = viewObjs[s].m_message_ptr]]
           IN  viewObjs' = [afterCopy EXCEPT ![s] = [@ EXCEPT !.m_message_ptr = nullptr]]
    /\ UNCHANGED <<released, nextRecord>>

\* ~message_view()
ViewDestroy ==
    /\ \E s \in ViewSlots :
        /\ viewObjs[s].live
        /\ released' = IF destroy_releases(viewObjs[s]) = 1
                       THEN [released EXCEPT ![viewObjs[s].m_message_ptr] = @ + 1]
                       ELSE released
        /\ viewObjs' = [viewObjs EXCEPT ![s] = NoView]
    /\ UNCHANGED nextRecord

ViewNext ==
    ViewWrapConsumed \/ ViewWrapDelivery \/ ViewMoveConstruct \/ ViewMoveAssign \/ ViewDestroy

\* ------------------------------------------------------------------------
\* producer::topic called by two threads (libdsp/libdsp/kafka.hpp)
\* cache.send -> kafka_producer::send -> try_send -> send_impl -> topic; none
\* of them takes a lock.
\* ------------------------------------------------------------------------

SendThreads == {1, 2}

Subjects == {"t1", "heartbeats"}

MaxTopicCalls == 2

\* Another thread is inside its modification of m_topics.
racing(t, pc) == \E u \in SendThreads \ {t} : pc[u] = "inserting"

MtInit ==
    /\ mtPc = [t \in SendThreads |-> "idle"]
    /\ mtName = [t \in SendThreads |-> "t1"]
    /\ mtHandle = [t \in SendThreads |-> 0]
    /\ mtCalls = [t \in SendThreads |-> 0]
    /\ mtRace = FALSE
    /\ mtCreatedFor = [n \in Subjects |-> 0]
    /\ mtDestroyed = {}

\* A thread enters topic(name)
MtCall(t) ==
    /\ mtPc[t] = "idle"
    /\ mtCalls[t] < MaxTopicCalls
    /\ mtCalls' = [mtCalls EXCEPT ![t] = @ + 1]
    /\ \E n \in Subjects : mtName' = [mtName EXCEPT ![t] = n]
    /\ mtPc' = [mtPc EXCEPT ![t] = "contains"]
    /\ UNCHANGED <<mtHandle, mtRace, mtCreatedFor, mtDestroyed, m_topics, handlesCreated>>

\* if (not m_topics.contains(name)): a read of the map.  While another thread
\* is modifying the map the read is a data race and may answer either way.
MtContains(t) ==
    /\ mtPc[t] = "contains"
    /\ mtRace' = (mtRace \/ racing(t, mtPc))
    /\ \E present \in (IF racing(t, mtPc) THEN BOOLEAN ELSE {mtName[t] \in DOMAIN m_topics}) :
          mtPc' = [mtPc EXCEPT ![t] = IF present THEN "lookup" ELSE "create"]
    /\ UNCHANGED <<mtName, mtHandle, mtCalls, mtCreatedFor, mtDestroyed, m_topics, handlesCreated>>

\* rd_kafka_topic_new into the local topic_t
MtCreate(t) ==
    /\ mtPc[t] = "create"
    /\ handlesCreated' = handlesCreated + 1
    /\ mtHandle' = [mtHandle EXCEPT ![t] = handlesCreated + 1]
    /\ mtCreatedFor' = [mtCreatedFor EXCEPT ![mtName[t]] = @ + 1]
    /\ mtPc' = [mtPc EXCEPT ![t] = "insert"]
    /\ UNCHANGED <<mtName, mtCalls, mtRace, mtDestroyed, m_topics>>

\* m_topics[name] = std::move(topic) begins: the thread is modifying the map
MtInsertBegin(t) ==
    /\ mtPc[t] = "insert"
    /\ mtRace' = (mtRace \/ racing(t, mtPc))
    /\ mtPc' = [mtPc EXCEPT ![t] = "inserting"]
    /\ UNCHANGED <<mtName, mtHandle, mtCalls, mtCreatedFor, mtDestroyed, m_topics, handlesCreated>>

\* m_topics[name] = std::move(topic) ends: a handle already stored under the
\* name is destroyed by the assignment (topic_del)
MtInsertEnd(t) ==
    /\ mtPc[t] = "inserting"
    /\ LET n == mtName[t]
       IN  /\ mtDestroyed' = IF n \in DOMAIN m_topics THEN mtDestroyed \cup {m_topics[n]}
                             ELSE mtDestroyed
           /\ m_topics' = [k \in DOMAIN m_topics \cup {n} |->
                              IF k = n THEN mtHandle[t] ELSE m_topics[k]]
    /\ mtPc' = [mtPc EXCEPT ![t] = "lookup"]
    /\ UNCHANGED <<mtName, mtHandle, mtCalls, mtRace, mtCreatedFor, handlesCreated>>

\* return m_topics[name].handle.get(): operator[] stores an empty topic_t
\* (null handle) when the name is absent
MtLookup(t) ==
    /\ mtPc[t] = "lookup"
    /\ mtRace' = (mtRace \/ racing(t, mtPc))
    /\ LET n == mtName[t]
       IN  /\ m_topics' = IF n \in DOMAIN m_topics THEN m_topics
                          ELSE [k \in DOMAIN m_topics \cup {n} |->
                                   IF k = n THEN 0 ELSE m_topics[k]]
           /\ mtHandle' = [mtHandle EXCEPT ![t] = m_topics'[n]]
    /\ mtPc' = [mtPc EXCEPT ![t] = "idle"]
    /\ UNCHANGED <<mtName, mtCalls, mtCreatedFor, mtDestroyed, handlesCreated>>

MtNext ==
    \E t \in SendThreads :
        MtCall(t) \/ MtContains(t) \/ MtCreate(t) \/ MtInsertBegin(t) \/ MtInsertEnd(t)
            \/ MtLookup(t)

\* ------------------------------------------------------------------------
\* metrics_registry called by two threads (include/dsp/metrics.hh)
\* The prometheus registry, Family::Add and Counter::Increment / Gauge::Set
\* synchronise internally; m_counters and m_gauges are plain unordered_maps.
\* ------------------------------------------------------------------------

MetricThreads == {1, 2}

MetricNames == {"receive_messages_total", "process_messages_total"}

MetricOps == {"increment", "set"}

MaxMetricCalls == 2

\* Another thread is inside emplace on the map this operation uses.
map_racing(t, pc, call) ==
    \E u \in MetricThreads \ {t} : pc[u] = "emplacing" /\ call[u].op = call[t].op

NoMetricCall == [op |-> "increment", name |-> "receive_messages_total", value |-> 0]

MetInit ==
    /\ m_counters = {}
    /\ m_gauges = {}
    /\ m_registry = {}
    /\ counterValue = [n \in MetricNames |-> 0]
    /\ gaugeValue = [n \in MetricNames |-> 0]
    /\ metPc = [t \in MetricThreads |-> "idle"]
    /\ metCall = [t \in MetricThreads |-> NoMetricCall]
    /\ metCalls = [t \in MetricThreads |-> 0]
    /\ metTorn = [t \in MetricThreads |-> FALSE]
    /\ metRace = FALSE
    /\ metCrashed = FALSE
    /\ metIncrements = [n \in MetricNames |-> 0]

\* increment(name, value) or set(name, value) is entered
MetCall(t) ==
    /\ ~metCrashed
    /\ metPc[t] = "idle"
    /\ metCalls[t] < MaxMetricCalls
    /\ \E op \in MetricOps, n \in MetricNames :
          metCall' = [metCall EXCEPT ![t] = [op |-> op, name |-> n, value |-> 1]]
    /\ metCalls' = [metCalls EXCEPT ![t] = @ + 1]
    /\ metPc' = [metPc EXCEPT ![t] = "find"]
    /\ UNCHANGED <<m_counters, m_gauges, m_registry, counterValue, gaugeValue, metTorn,
                   metRace, metCrashed, metIncrements>>

\* add_counter / add_gauge: find(name) on the map; racing with an emplace the
\* lookup may answer either way
MetFind(t) ==
    /\ ~metCrashed
    /\ metPc[t] = "find"
    /\ LET c == metCall[t]
           map == IF c.op = "increment" THEN m_counters ELSE m_gauges
           race == map_racing(t, metPc, metCall)
       IN  /\ metRace' = (metRace \/ race)
           /\ metTorn' = [u \in MetricThreads |->
                             metTorn[u] \/ (race /\ u # t /\ metPc[u] = "emplacing"
                                                 /\ metCall[u].op = c.op)]
           /\ \E found \in (IF race THEN BOOLEAN ELSE {c.name \in map}) :
                 metPc' = [metPc EXCEPT ![t] = IF found THEN "update" ELSE "register"]
    /\ UNCHANGED <<m_counters, m_gauges, m_registry, counterValue, gaugeValue, metCall,
                   metCalls, metCrashed, metIncrements>>

\* BuildCounter().Name(name).Register(*m_registry)
MetRegister(t) ==
    /\ ~metCrashed
    /\ metPc[t] = "register"
    /\ m_registry' = m_registry \cup {<<metCall[t].op, metCall[t].name>>}
    /\ metPc' = [metPc EXCEPT ![t] = "emplace"]
    /\ UNCHANGED <<m_counters, m_gauges, counterValue, gaugeValue, metCall, metCalls,
                   metTorn, metRace, metCrashed, metIncrements>>

\* m_counters.emplace(name, ...) begins
MetEmplaceBegin(t) ==
    /\ ~metCrashed
    /\ metPc[t] = "emplace"
    /\ LET race == map_racing(t, metPc, metCall)
       IN  /\ metRace' = (metRace \/ race)
           /\ metTorn' = [u \in MetricThreads |->
                             metTorn[u] \/ (race /\ (u = t \/ (metPc[u] = "emplacing"
                                                    /\ metCall[u].op = metCall[t].op)))]
    /\ metPc' = [metPc EXCEPT ![t] = "emplacing"]
    /\ UNCHANGED <<m_counters, m_gauges, m_registry, counterValue, gaugeValue, metCall,
                   metCalls, metCrashed, metIncrements>>

\* m_counters.emplace(name, ...) ends.  An emplace that overlapped another
\* access of the same map is a data race: the entry is stored, is lost, or the
\* process crashes.
MetEmplaceEnd(t) ==
    /\ ~metCrashed
    /\ metPc[t] = "emplacing"
    /\ \E outcome \in (IF metTorn[t] THEN {"stored", "lost", "crash"} ELSE {"stored"}) :
          LET c == metCall[t]
              add == IF outcome = "stored" THEN {c.name} ELSE {}
          IN  /\ m_counters' = IF c.op = "increment" THEN m_counters \cup add ELSE m_counters
              /\ m_gauges' = IF c.op = "set" THEN m_gauges \cup add ELSE m_gauges
              /\ metCrashed' = (outcome = "crash")
    /\ metTorn' = [metTorn EXCEPT ![t] = FALSE]
    /\ metPc' = [metPc EXCEPT ![t] = "update"]
    /\ UNCHANGED <<m_registry, counterValue, gaugeValue, metCall, metCalls, metRace,
                   metIncrements>>

\* family.Add(labels).Increment(value) / .Set(value)
MetUpdate(t) ==
    /\ ~metCrashed
    /\ metPc[t] = "update"
    /\ LET c == metCall[t]
       IN  /\ counterValue' = IF c.op = "increment"
                              THEN [counterValue EXCEPT ![c.name] = @ + c.value]
                              ELSE counterValue
           /\ gaugeValue' = IF c.op = "set" THEN [gaugeValue EXCEPT ![c.name] = c.value]
                            ELSE gaugeValue
           /\ metIncrements' = IF c.op = "increment"
                               THEN [metIncrements EXCEPT ![c.name] = @ + 1]
                               ELSE metIncrements
    /\ metPc' = [metPc EXCEPT ![t] = "idle"]
    /\ UNCHANGED <<m_counters, m_gauges, m_registry, metCall, metCalls, metTorn, metRace,
                   metCrashed>>

MetNext ==
    \E t \in MetricThreads :
        MetCall(t) \/ MetFind(t) \/ MetRegister(t) \/ MetEmplaceBegin(t) \/ MetEmplaceEnd(t)
            \/ MetUpdate(t)

\* ------------------------------------------------------------------------
\* token_bucket (include/dsp/token_bucket.hh)
\* Time is counted in milliseconds; rates are tokens per second.
\* ------------------------------------------------------------------------

MsPerSec == 1000

MaxTime == 3000

MaxTake == 2

Buckets == { [limit |-> 2, rate |-> 2], [limit |-> 1, rate |-> 3] }

\* How long the caller may stay away between two calls.
IdleSteps == {500, 1000}

\* By how much wait may overrun the requested duration; its busy spin (under
\* 500 ms) and its sleep_for both last at least that long.
WaitOvershoots == {0, 1}

\* static_cast<long>(static_cast<double>(tokens) / m_rate * 1000)
wait_ms(tokens, rate) == (tokens * MsPerSec) \div rate

\* token_bucket::accumulate
accumulate(elapsed, rate, limit) == Min((rate * elapsed) \div MsPerSec, limit)

\* Largest surplus, over all windows that end now, of the tokens granted in
\* the window over rate * window length; kept in thousandths of a token.
\* Time passing by d lowers it by rate * d, never below the empty window's 0.
surplus_after(s, d, rate) ==
    IF s - rate * d > 0 THEN s - rate * d ELSE 0

TbInit ==
    /\ \E b \in Buckets :
          /\ m_limit = b.limit
          /\ m_rate = b.rate
          /\ m_tokens = b.limit
    /\ clock = 0
    /\ m_last_replenished = 0
    /\ granted = 0
    /\ surplus = 0
    /\ tbContinuous = TRUE
    /\ tbReplenishCalls = 0
    /\ lastTake = [n |-> 0, waited |-> 0, added |-> 0, before |-> 0]

\* A bucket nobody uses.
TokenBucketIdle ==
    /\ m_limit = 2 /\ m_rate = 2 /\ m_tokens = 2
    /\ clock = 0 /\ m_last_replenished = 0 /\ granted = 0 /\ surplus = 0
    /\ tbContinuous = TRUE /\ tbReplenishCalls = 0
    /\ lastTake = [n |-> 0, waited |-> 0, added |-> 0, before |-> 0]

\* take(tokens): the decrement, and below zero the wait and the replenish
TbTake ==
    \E n \in 1..MaxTake, over \in WaitOvershoots :
        LET t1 == m_tokens - n
            d == IF t1 < 0 THEN wait_ms(-t1, m_rate) + over ELSE 0
            add == IF t1 < 0 THEN accumulate(clock + d - m_last_replenished, m_rate, m_limit)
                   ELSE 0
        IN  /\ clock + d <= MaxTime
            /\ t1 >= 0 => over = 0
            /\ clock' = clock + d
            /\ m_tokens' = t1 + add
            /\ m_last_replenished' = IF t1 < 0 THEN clock + d ELSE m_last_replenished
            /\ granted' = granted + n
            /\ surplus' = surplus_after(surplus, d, m_rate) + n * MsPerSec
            /\ tbContinuous' = (tbContinuous /\ n = 1)
            /\ lastTake' = [n |-> n, waited |-> d, added |-> add, before |-> m_tokens]
            /\ UNCHANGED <<m_limit, m_rate, tbReplenishCalls>>

\* replenish() called by the user of the bucket
TbReplenish ==
    /\ tbReplenishCalls < MaxTake
    /\ m_tokens' = m_tokens + accumulate(clock - m_last_replenished, m_rate, m_limit)
    /\ m_last_replenished' = clock
    /\ tbReplenishCalls' = tbReplenishCalls + 1
    /\ tbContinuous' = FALSE
    /\ UNCHANGED <<m_limit, m_rate, clock, granted, surplus, lastTake>>

\* The caller does something else for a while.
TbElapse ==
    \E d \in IdleSteps :
        /\ clock + d <= MaxTime
        /\ clock' = clock + d
        /\ surplus' = surplus_after(surplus, d, m_rate)
        /\ tbContinuous' = FALSE
        /\ UNCHANGED <<m_limit, m_rate, m_tokens, m_last_replenished, granted,
                       tbReplenishCalls, lastTake>>

TbNext == TbTake \/ TbReplenish \/ TbElapse

\* ------------------------------------------------------------------------
\* router::route over rule lists (libdsp/libdsp/router.hh)
\* route and match are written for any rule_t; the lists below are in
\* push_back order of ascending priority, as the constructor builds its own.
\* ------------------------------------------------------------------------

MaxRules == 2

RuleConditions == { <<"type", "heartbeat">>, <<"origin", "x">>, Everything }

RuleActions == {"allow", "deny"}

RuleSubjects == <<"heartbeats", "dev-test">>

rule_subject(i) == IF i <= Len(RuleSubjects) THEN RuleSubjects[i] ELSE "other"

RuleLists ==
    UNION { { [i \in 1..n |-> rule_t(i, c[i], a[i], rule_subject(i))] :
                c \in [1..n -> RuleConditions], a \in [1..n -> RuleActions] } : n \in 1..MaxRules }

RouterRulesInit ==
    /\ m_rules \in RuleLists
    /\ routeIn = NoMsg
    /\ routeOut = << >>

\* ------------------------------------------------------------------------
\* producer: poller thread and destruction (libdsp/libdsp/kafka.hpp)
\* Time is counted in seconds.
\* ------------------------------------------------------------------------

\* detail::PollTimeout, the timeout of the poller's rd_kafka_poll
PollTimeoutSec == 1

\* FlushTimeout of the destructor
FlushTimeoutSec == 5

\* Members destroyed with the handle before the thread that polls it.
member_destruction_order_handle_first ==
    <<"m_topics", "m_keep_alive", "m_producer", "m_poll_thread", "m_props">>

\* The members of producer in the order their destructors run: the reverse
\* of their declaration.
member_destruction_order ==
    <<"m_topics", "m_keep_alive", "m_poll_thread", "m_producer", "m_props">>

\* ~producer(): the body, then the members
destructor_steps == <<"flush", "stop_if_alive">> \o member_destruction_order

LifeInit ==
    /\ m_keep_alive = TRUE
    /\ pollerPc = "test"
    /\ pollElapsed = 0
    /\ dtorPc = "alive"
    /\ dtorTodo = << >>
    /\ flushElapsed = 0
    /\ handleDestroyed = FALSE
    /\ polledDestroyed = FALSE
    /\ sinceStop = 0
    /\ lifeLog = << >>

\* poller: while (keep_alive.load())
PollerTest ==
    /\ pollerPc = "test"
    /\ pollerPc' = IF m_keep_alive THEN "polling" ELSE "exited"
    /\ pollElapsed' = 0
    /\ polledDestroyed' = (polledDestroyed \/ (m_keep_alive /\ handleDestroyed))
    /\ UNCHANGED <<m_keep_alive, dtorPc, dtorTodo, flushElapsed, handleDestroyed, sinceStop, lifeLog>>

\* poller: rd_kafka_poll returns, after an event or at its timeout
PollerReturn ==
    /\ pollerPc = "polling"
    /\ pollerPc' = "test"
    /\ polledDestroyed' = (polledDestroyed \/ handleDestroyed)
    /\ UNCHANGED <<m_keep_alive, pollElapsed, dtorPc, dtorTodo, flushElapsed, handleDestroyed,
                   sinceStop, lifeLog>>

\* producer::stop() called by the owner before the producer is destroyed
LifeStop ==
    /\ dtorPc = "alive"
    /\ m_keep_alive
    /\ m_keep_alive' = FALSE
    /\ lifeLog' = Append(lifeLog, "user_stop")
    /\ UNCHANGED <<pollerPc, pollElapsed, dtorPc, dtorTodo, flushElapsed, handleDestroyed,
                   polledDestroyed, sinceStop>>

\* The producer goes out of scope.
DtorBegin ==
    /\ dtorPc = "alive"
    /\ dtorPc' = "destroying"
    /\ dtorTodo' = destructor_steps
    /\ UNCHANGED <<m_keep_alive, pollerPc, pollElapsed, flushElapsed, handleDestroyed,
                   polledDestroyed, sinceStop, lifeLog>>

\* One step of the destructor.  flush returns at its deadline at the latest;
\* the jthread member's destructor joins the poller thread.
DtorStep ==
    /\ dtorPc = "destroying"
    /\ dtorTodo # << >>
    /\ LET step == Head(dtorTodo)
       IN  /\ step = "m_poll_thread" => pollerPc = "exited"
           /\ m_keep_alive' = IF step = "stop_if_alive" THEN FALSE ELSE m_keep_alive
           /\ handleDestroyed' = (handleDestroyed \/ step = "m_producer")
           /\ lifeLog' = IF step = "flush" THEN Append(lifeLog, "flush")
                         ELSE IF step = "stop_if_alive" /\ m_keep_alive THEN Append(lifeLog, "stop")
                         ELSE IF step = "m_poll_thread" THEN Append(lifeLog, "join")
                         ELSE IF step = "m_producer" THEN Append(lifeLog, "destroy")
                         ELSE lifeLog
    /\ dtorTodo' = Tail(dtorTodo)
    /\ dtorPc' = IF Tail(dtorTodo) = << >> THEN "destroyed" ELSE "destroying"
    /\ UNCHANGED <<pollerPc, pollElapsed, flushElapsed, polledDestroyed, sinceStop>>

\* A second passes.  A poll does not outlast its timeout, a flush not its
\* deadline, and the poller's loop test takes no time.
LifeTick ==
    /\ pollerPc # "test"
    /\ pollerPc = "polling" => pollElapsed < PollTimeoutSec
    /\ (dtorPc = "destroying" /\ Head(dtorTodo) = "flush") => flushElapsed < FlushTimeoutSec
    /\ dtorPc # "destroyed"
    /\ pollElapsed' = IF pollerPc = "polling" THEN pollElapsed + 1 ELSE pollElapsed
    /\ flushElapsed' = IF dtorPc = "destroying" /\ Head(dtorTodo) = "flush"
                       THEN flushElapsed + 1 ELSE flushElapsed
    /\ sinceStop' = IF ~m_keep_alive /\ pollerPc # "exited" THEN sinceStop + 1 ELSE sinceStop
    /\ UNCHANGED <<m_keep_alive, pollerPc, dtorPc, dtorTodo, handleDestroyed, polledDestroyed,
                   lifeLog>>

LifeNext == PollerTest \/ PollerReturn \/ LifeStop \/ DtorBegin \/ DtorStep \/ LifeTick

\* ------------------------------------------------------------------------
\* The example service: its Kafka message handler, the listener thread and
\* the daemon (src/svc/main.cc, include/dsp/daemon.hh, include/dsp/dsp.hh)
\* ------------------------------------------------------------------------

\* The partitions of the consumed topic, and the most messages the listener
\* hands to the handler in a run.
MaxPartitions == 3
MaxExampleMessages == 6

Partitions == 0..(MaxPartitions - 1)

\* What a consumed message is to kafka_message_handler::process: a record,
\* the end of a partition, another error.
MessageKinds == {"data", "eof", "error"}

\* kafka_message_handler::process: whether it raises SIGINT, m_stats.has_value()
\* after the call, whether do_process is reached.
example_process(kind, has_stats) ==
    [raise |-> kind = "eof" /\ has_stats,
     stats |-> IF kind = "data" THEN TRUE
               ELSE IF kind = "eof" /\ has_stats THEN FALSE
               ELSE has_stats,
     forward |-> kind = "data"]

NoExampleCall == [kind |-> "none", partition |-> 0, raised |-> FALSE, n |-> 0]

ExampleInit ==
    /\ m_stats = FALSE
    /\ exAtEof = {}
    /\ exProcessed = 0
    /\ exRaises = 0
    /\ exDataSinceRaise = 0
    /\ exLast = NoExampleCall

\* The listener thread hands one consumed message to the handler.  The client
\* reports the end of a partition once each time the consumer reaches it; a
\* record of that partition means the consumer is past that end.  std::raise
\* runs handle_signal_int in the calling thread before it returns.
ExampleProcess ==
    /\ worker = "running" /\ lsn_alive /\ ~aborted
    /\ exProcessed < MaxExampleMessages
    /\ \E p \in Partitions, kind \in MessageKinds :
        /\ kind = "eof" => p \notin exAtEof
        /\ LET r == example_process(kind, m_stats)
               n == g_sigint
           IN  /\ m_stats' = r.stats
               /\ g_sigint' = IF r.raise THEN n + 1 ELSE g_sigint
               /\ aborted' = IF r.raise THEN sigint_aborts(n) ELSE aborted
               /\ exRaises' = IF r.raise THEN exRaises + 1 ELSE exRaises
               /\ exDataSinceRaise' = IF r.raise THEN 0
                                      ELSE IF r.forward THEN exDataSinceRaise + 1
                                      ELSE exDataSinceRaise
               /\ exLast' = [kind |-> kind, partition |-> p, raised |-> r.raise, n |-> n]
        /\ exAtEof' = IF kind = "eof" THEN exAtEof \cup {p}
                      ELSE IF kind = "data" THEN exAtEof \ {p}
                      ELSE exAtEof
    /\ exProcessed' = exProcessed + 1
    /\ UNCHANGED <<g_sigterm, g_sigusr1, g_sigusr2, m_alive, m_function, daemonPc, tickStop,
                   lastWatchdog, sleepsAfterStop>>
    /\ UNCHANGED svcVars

\* The main thread of the example: service::start, the daemon's ticks,
\* service::stop; and the listener thread leaving its loop once stopped.
ExampleService ==
    /\ \/ ServiceStart \/ ServiceDaemonStep \/ ServiceStartEscapes
       \/ ServiceStopBegin \/ ServiceStopStep \/ WorkerExit
    /\ UNCHANGED exVars

ExampleNext == ExampleProcess \/ ExampleService

\* ------------------------------------------------------------------------
\* Specifications
\* ------------------------------------------------------------------------

vars == <<cacheVars, routerVars, tcpVars, prodVars, daemonVars, svcVars, lsnVars, viewVars, mtVars, metVars, tbVars, lifeVars, exVars>>

\* The state of a connection that no peer writes to.
TcpIdle ==
    /\ handlerType = "passthrough"
    /\ streamFrames = << >>
    /\ delivered = 0
    /\ buffer = << >>
    /\ tcpPc = "read"
    /\ n_messages = 0
    /\ n_bytes = 0
    /\ stats = [k \in {} |-> 0]
    /\ northbound = << >>
    /\ consumedLog = << >>
    /\ lastCall = [ret |-> 0, thrown |-> FALSE, res |-> << >>]

\* A producer nobody sends through.
ProducerIdle ==
    /\ prodVariant = "kafka.hpp"
    /\ queue = << >>
    /\ m_topics = [n \in {} |-> 0]
    /\ handlesCreated = 0
    /\ usedSubjects = {}
    /\ prodPc = "idle"
    /\ prodCall = NoCall

\* A process whose daemon has not been given a watchdog.
DaemonIdle ==
    /\ g_sigint = 0
    /\ g_sigterm = 0
    /\ g_sigusr1 = 0
    /\ g_sigusr2 = 0
    /\ aborted = FALSE
    /\ m_alive = TRUE
    /\ m_function = FALSE
    /\ daemonPc = "constructed"
    /\ tickStop = FALSE
    /\ lastWatchdog = "none"
    /\ sleepsAfterStop = 0

\* A service that is built and never started.
ServiceIdle ==
    /\ hasSouthbound = FALSE
    /\ svcSinks = {}
    /\ sinkAlive = [n \in {} |-> TRUE]
    /\ lsn_alive = TRUE
    /\ svcPc = "built"
    /\ worker = "none"
    /\ workerJoinable = FALSE
    /\ stopCalls = 0
    /\ stopTodo = << >>
    /\ stopLog = << >>
    /\ lastStop = NoStop
    /\ stoppedOnce = {}

Init == CacheInit /\ RouterInit /\ TcpIdle /\ ProducerIdle /\ DaemonIdle /\ ServiceIdle /\ ListenerInit /\ ViewInit /\ MtInit /\ MetInit /\ TokenBucketIdle /\ LifeInit /\ ExampleInit

SpecCache  == Init /\ [][CacheNext /\ UNCHANGED <<routerVars, tcpVars, prodVars, daemonVars, svcVars, lsnVars, viewVars, mtVars, metVars, tbVars, lifeVars, exVars>>]_vars
SpecRouter == Init /\ [][RouterNext /\ UNCHANGED <<cacheVars, tcpVars, prodVars, daemonVars, svcVars, lsnVars, viewVars, mtVars, metVars, tbVars, lifeVars, exVars>>]_vars
InitTcp == CacheInit /\ RouterInit /\ TcpInit /\ ProducerIdle /\ DaemonIdle /\ ServiceIdle /\ ListenerInit /\ ViewInit /\ MtInit /\ MetInit /\ TokenBucketIdle /\ LifeInit /\ ExampleInit
SpecTcp    == InitTcp
                 /\ [][TcpNext /\ UNCHANGED <<cacheVars, routerVars, prodVars, daemonVars, svcVars, lsnVars, viewVars, mtVars, metVars, tbVars, lifeVars, exVars>>]_vars
InitProducer == CacheInit /\ RouterInit /\ TcpIdle /\ ProducerInit /\ DaemonIdle /\ ServiceIdle /\ ListenerInit /\ ViewInit /\ MtInit /\ MetInit /\ TokenBucketIdle /\ LifeInit /\ ExampleInit
SpecProducer == InitProducer
                 /\ [][ProducerNext /\ UNCHANGED <<cacheVars, routerVars, tcpVars, daemonVars, svcVars, lsnVars, viewVars, mtVars, metVars, tbVars, lifeVars, exVars>>]_vars
InitDaemon == CacheInit /\ RouterInit /\ TcpIdle /\ ProducerIdle /\ DaemonInit /\ ServiceIdle /\ ListenerInit /\ ViewInit /\ MtInit /\ MetInit /\ TokenBucketIdle /\ LifeInit /\ ExampleInit
InitService == CacheInit /\ RouterInit /\ TcpIdle /\ ProducerIdle /\ DaemonIdle /\ ServiceInit /\ ListenerInit /\ ViewInit /\ MtInit /\ MetInit /\ TokenBucketIdle /\ LifeInit /\ ExampleInit
SpecService == InitService
                 /\ [][ServiceNext /\ UNCHANGED <<cacheVars, routerVars, tcpVars, prodVars, lsnVars, viewVars, mtVars, metVars, tbVars, lifeVars, exVars>>]_vars
\* A service built with a Kafka listener; only the listener runs.
ListenerService ==
    /\ hasSouthbound = TRUE
    /\ svcSinks = {}
    /\ sinkAlive = [n \in {} |-> TRUE]
    /\ lsn_alive = TRUE
    /\ svcPc = "built"
    /\ worker = "none"
    /\ workerJoinable = FALSE
    /\ stopCalls = 0
    /\ stopTodo = << >>
    /\ stopLog = << >>
    /\ lastStop = NoStop
    /\ stoppedOnce = {}

InitListener == CacheInit /\ RouterInit /\ TcpIdle /\ ProducerIdle /\ DaemonIdle /\ ListenerService /\ ListenerInit /\ ViewInit /\ MtInit /\ MetInit /\ TokenBucketIdle /\ LifeInit /\ ExampleInit
SpecListener == InitListener
                 /\ [][ListenerNext /\ UNCHANGED <<cacheVars, routerVars, tcpVars, prodVars, viewVars, mtVars, metVars, tbVars, lifeVars, exVars>>]_vars
SpecView == Init
                 /\ [][ViewNext /\ UNCHANGED <<cacheVars, routerVars, tcpVars, prodVars, daemonVars, svcVars, lsnVars, mtVars, metVars, tbVars, lifeVars, exVars>>]_vars
SpecProducerMT == Init
                 /\ [][MtNext /\ UNCHANGED <<cacheVars, routerVars, tcpVars, daemonVars, svcVars, lsnVars, viewVars,
                                             prodVariant, queue, prodPc, prodCall, usedSubjects, metVars, tbVars, lifeVars, exVars>>]_vars
SpecMetrics == Init
                 /\ [][MetNext /\ UNCHANGED <<cacheVars, routerVars, tcpVars, prodVars, daemonVars, svcVars, lsnVars,
                                              viewVars, mtVars, tbVars, lifeVars, exVars>>]_vars
InitTokenBucket == CacheInit /\ RouterInit /\ TcpIdle /\ ProducerIdle /\ DaemonIdle /\ ServiceIdle /\ ListenerInit /\ ViewInit /\ MtInit /\ MetInit /\ TbInit /\ LifeInit /\ ExampleInit
SpecTokenBucket == InitTokenBucket
                 /\ [][TbNext /\ UNCHANGED <<cacheVars, routerVars, tcpVars, prodVars, daemonVars, svcVars, lsnVars,
                                             viewVars, mtVars, metVars, lifeVars, exVars>>]_vars
InitRouterRules == CacheInit /\ RouterRulesInit /\ TcpIdle /\ ProducerIdle /\ DaemonIdle /\ ServiceIdle /\ ListenerInit /\ ViewInit /\ MtInit /\ MetInit /\ TokenBucketIdle /\ LifeInit /\ ExampleInit
SpecRouterRules == InitRouterRules
                 /\ [][RouterNext /\ UNCHANGED <<cacheVars, tcpVars, prodVars, daemonVars, svcVars, lsnVars, viewVars,
                                                 mtVars, metVars, tbVars, lifeVars, exVars>>]_vars
SpecCacheGet == Init
                 /\ [][CacheGetNext /\ UNCHANGED <<routerVars, tcpVars, prodVars, daemonVars, svcVars, lsnVars, viewVars,
                                                   mtVars, metVars, tbVars, lifeVars, exVars>>]_vars
SpecLifecycle == Init
                 /\ [][LifeNext /\ UNCHANGED <<cacheVars, routerVars, tcpVars, prodVars, daemonVars, svcVars, lsnVars,
                                               viewVars, mtVars, metVars, tbVars, exVars>>]_vars
SpecDaemon == InitDaemon
                 /\ [][DaemonNext /\ UNCHANGED <<cacheVars, routerVars, tcpVars, prodVars, svcVars, lsnVars, viewVars, mtVars, metVars, tbVars, lifeVars, exVars>>]_vars
\* The example service with its Kafka listener, started once.
InitExample == CacheInit /\ RouterInit /\ TcpIdle /\ ProducerIdle /\ DaemonIdle /\ ListenerService /\ ListenerInit /\ ViewInit /\ MtInit /\ MetInit /\ TokenBucketIdle /\ LifeInit /\ ExampleInit
SpecExample == InitExample
                 /\ [][ExampleNext /\ UNCHANGED <<cacheVars, routerVars, tcpVars, prodVars, lsnVars, viewVars,
                                                  mtVars, metVars, tbVars, lifeVars>>]_vars

\* ------------------------------------------------------------------------
\* Claims
\* ------------------------------------------------------------------------

\* C1: whenever cache.send(m) returns, every attached sink's send was called
\* exactly once with m (also the sinks visited after one that returned
\* false), no other sink was called, and the result is true iff every one
\* of those calls returned true.
C1_CacheSendTotal ==
    cacheResult \in {"true", "false"} =>
        /\ \A n \in DOMAIN cacheRet : cacheCalls[n] = 1 /\ cacheGot[n] = cacheMsg
        /\ \A n \in SinkNames \ DOMAIN cacheRet : cacheCalls[n] = 0
        /\ (cacheResult = "true") <=> (\A n \in DOMAIN cacheRet : cacheRet[n] = "true")

\* A send over three sinks of which one returned false and the others true.
C1_Witness ==
    /\ cacheResult = "false"
    /\ Cardinality(DOMAIN cacheRet) = 3
    /\ Cardinality({n \in DOMAIN cacheRet : cacheRet[n] = "false"}) = 1
    /\ \A n \in DOMAIN cacheRet : cacheCalls[n] = 1

\* C2: with the default rule set, a message whose property type is heartbeat
\* is routed to exactly one output, with subject heartbeats, and a message
\* without a type property to exactly one output, with subject dev-test,
\* whatever its key, payload, subject and other properties.
C2_DefaultRoute ==
    routeIn # NoMsg =>
        /\ ("type" \in DOMAIN routeIn.properties /\ routeIn.properties["type"] = "heartbeat")
              => (Len(routeOut) = 1 /\ routeOut[1].subject = "heartbeats")
        /\ "type" \notin DOMAIN routeIn.properties
              => (Len(routeOut) = 1 /\ routeOut[1].subject = "dev-test")

\* A message without a type property, with another property, a key and a
\* payload, was routed.
C2_Witness ==
    /\ routeIn # NoMsg
    /\ DOMAIN routeIn.properties = {"origin"}
    /\ routeIn.key # << >> /\ routeIn.payload # << >>
    /\ Len(routeOut) = 1

\* ---- framing

RECURSIVE Sum(_)
Sum(s) == IF s = << >> THEN 0 ELSE Head(s) + Sum(Tail(s))

FrameLens == [i \in 1..Len(streamFrames) |-> Len(streamFrames[i])]

StreamWellFormed == \A i \in 1..Len(streamFrames) : WellFormed(handlerType, streamFrames[i])

\* The number of frames that lie completely within the first n bytes of the stream.
RECURSIVE CompleteFrames(_, _)
CompleteFrames(lens, n) ==
    IF lens = << >> \/ Head(lens) > n THEN 0 ELSE 1 + CompleteFrames(Tail(lens), n - Head(lens))

\* The body of a frame: what follows the length prefix (passthrough) or the
\* length and the type (telemetry).
FrameBody(type, f) == IF type = "passthrough" THEN SubSeq(f, 3, Len(f)) ELSE SubSeq(f, 5, Len(f))

IsHeartbeat(type, f) == type = "telemetry" /\ as_u16(f, 2) = TypeHeartbeat

\* C3: for a stream of N well-formed frames delivered in any chunking, the
\* non-zero results of process are the lengths of the frames, in stream
\* order; the buffer always holds exactly the delivered bytes that follow
\* the consumed frames (no byte skipped, none processed twice); one message
\* is counted and forwarded per consumed frame; and once the buffer is
\* drained every frame that has completely arrived has been processed, so
\* that all N are when the whole stream has arrived.
C3_Framing ==
    StreamWellFormed =>
        /\ Len(consumedLog) <= Len(streamFrames)
        /\ \A i \in 1..Len(consumedLog) : consumedLog[i] = Len(streamFrames[i])
        /\ buffer = SubSeq(Stream, Sum(consumedLog) + 1, delivered)
        /\ n_messages = Len(consumedLog) /\ n_bytes = Sum(consumedLog)
        /\ tcpPc # "dropped" => Len(northbound) = Len(consumedLog)
        /\ \A i \in 1..Len(consumedLog) :
              ~IsHeartbeat(handlerType, streamFrames[i]) =>
                  LET body == FrameBody(handlerType, streamFrames[i])
                  IN  SubSeq(northbound[i].payload, 1, Len(body)) = body
        /\ tcpPc = "read" => Len(consumedLog) = CompleteFrames(FrameLens, delivered)
        /\ (tcpPc = "read" /\ delivered = Len(Stream)) =>
              (Len(consumedLog) = Len(streamFrames) /\ buffer = << >>)

\* Two well-formed frames have arrived completely and both were processed,
\* the second one after its bytes had arrived in more than one read.
C3_Witness ==
    /\ StreamWellFormed
    /\ Len(streamFrames) = 2
    /\ tcpPc = "read" /\ delivered = Len(Stream)
    /\ Len(consumedLog) = 2 /\ consumedLog[2] > 2
    /\ n_messages = 2

\* The buffer holds only a proper prefix of the frame that starts where the
\* consumed bytes end.
HeadIsProperPrefix ==
    \E i \in 1..Len(streamFrames) :
        /\ Sum(SubSeq(FrameLens, 1, i - 1)) = Sum(consumedLog)
        /\ Len(buffer) < Len(streamFrames[i])

\* C4: a process call returns 0 whenever the buffer holds only a proper
\* prefix of a frame, and a process call that returns 0 has had no effect:
\* no metric incremented, nothing sent downstream, the connection's message
\* and byte counters unchanged.
C4_ZeroMeansNoEffect ==
    [][ tcpPc = "drain" =>
          /\ HeadIsProperPrefix => (lastCall'.ret = 0 /\ ~lastCall'.thrown)
          /\ (lastCall'.ret = 0 /\ ~lastCall'.thrown) =>
                UNCHANGED <<stats, northbound, n_messages, n_bytes>> ]_vars

\* C5: for well-formed frames, the message sent downstream for a frame
\* carries exactly the frame's body whatever follows the frame in the buffer:
\* the L-2 bytes after the length prefix for the passthrough handler (empty
\* key, subject = app.topic), the L-4 bytes after length and type for a
\* dyn_message frame of the telemetry handler.
C5_PayloadIsFrameBody ==
    StreamWellFormed =>
        \A i \in 1..Len(northbound) :
            (i <= Len(streamFrames) /\ ~IsHeartbeat(handlerType, streamFrames[i])) =>
                /\ northbound[i].payload = FrameBody(handlerType, streamFrames[i])
                /\ northbound[i].key = << >>
                /\ handlerType = "passthrough" => northbound[i].subject = AppTopic

\* ---- producer

\* C6: a try_send that returns has made exactly one enqueue attempt and
\* returns false iff that attempt reported a full queue; when it returns
\* false the message was not enqueued, no retry is pending, and until the
\* next call nothing is added to the queue.
C6_TrySendSingleAttempt ==
    /\ [](( prodCall.op = "try_send" /\ prodCall.result \in {"true", "false"}) =>
            /\ prodCall.attempts = 1
            /\ (prodCall.result = "false") <=> (prodCall.status = "QUEUE_FULL")
            /\ prodCall.result = "false" => (prodCall.enqueued = 0 /\ prodPc = "idle"))
    /\ [][ (prodCall.op = "try_send" /\ prodCall.result = "false" /\ prodCall' = prodCall)
             => Len(queue') <= Len(queue) ]_vars

\* A try_send returned false on a full queue, and the queue has since drained.
C6_Witness ==
    /\ prodCall.op = "try_send" /\ prodCall.result = "false"
    /\ prodCall.status = "QUEUE_FULL"
    /\ queue = << >>

\* C7: send re-attempts after every queue-full result (it does not return
\* then), and returns normally only after an attempt in which the message
\* was accepted, the message having been enqueued exactly once.
C7_SendUntilAccepted ==
    prodCall.op = "send" =>
        /\ prodCall.status = "QUEUE_FULL" => prodCall.result = "running"
        /\ prodCall.result = "returned" =>
              (prodCall.status = "NO_ERROR" /\ prodCall.enqueued = 1)
        /\ prodCall.enqueued <= 1

\* C8: try_send and send raise instead of returning when the attempt reports
\* message-too-large, unknown topic or unknown partition, and when adding a
\* header fails (read-only headers); in each of these cases the message is
\* not enqueued.
C8_FatalErrorsRaise ==
    (prodCall.op # "none" /\ (prodCall.status \in FatalStatuses \/ prodCall.hdr = "READ_ONLY")) =>
        (prodCall.result = "thrown" /\ prodCall.enqueued = 0)

\* ---- signals

C10_AbortOnSecondSigint ==
    /\ g_sigint = 1 => ~aborted
    /\ g_sigint >= 2 => aborted

\* ---- daemon loop

\* C11: in a tick whose signal check finds the SIGINT or SIGTERM counter
\* non-zero the daemon clears alive, and in such a tick the watchdog is not
\* invoked.
C11_StopTickSkipsWatchdog ==
    /\ [][ (daemonPc = "signals" /\ daemonPc' # "signals" /\ has_signal_stop(g_sigint, g_sigterm))
             => ~m_alive' ]_vars
    /\ [][ (daemonPc = "watchdog" /\ daemonPc' # "watchdog" /\ tickStop)
             => lastWatchdog' = "none" ]_vars

\* C12: once the watchdog has returned false or thrown, alive is cleared, the
\* failure has not left daemon::start, and the loop is on its way out (sleep,
\* loop test, stopped) without reaching the watchdog again.
C12_WatchdogFailureStops ==
    /\ daemonPc # "escaped"
    /\ lastWatchdog \in (WatchdogOutcomes \ {"true"}) =>
          (~m_alive /\ daemonPc \in {"sleep", "head", "stopped"})

\* C13: after a stop signal (SIGINT or SIGTERM) has been delivered, the daemon
\* loop begins at most one further sleep before daemon::start returns.
C13_OneSleepAfterStop ==
    sleepsAfterStop <= 1

\* ---- service shutdown

\* The calls made so far by the running service::stop respect the order
\* listener, then every sink once, then detach.
StopOrderRespected ==
    \A i \in 1..Len(stopLog) :
        /\ stopLog[i] = "southbound" => i = 1
        /\ stopLog[i] \in svcSinks =>
              /\ \A j \in 1..(i - 1) : stopLog[j] # stopLog[i] /\ stopLog[j] # "detach"
              /\ hasSouthbound => stopLog[1] = "southbound"
        /\ stopLog[i] = "detach" =>
              { stopLog[j] : j \in 1..(i - 1) } =
                  svcSinks \cup (IF hasSouthbound THEN {"southbound"} ELSE {})

C15_StopIdempotent ==
    lastStop.repeat => (~lastStop.changed /\ ~lastStop.threw)

\* ---- Kafka listener

\* s is a prefix of t
IsPrefix(s, t) == Len(s) <= Len(t) /\ \A i \in 1..Len(s) : s[i] = t[i]

\* C16: once stop() has been called on the Kafka listener, at most one consume
\* call begins, the listener function does not end abnormally, the records
\* fetched are handed to the handler in order, and when the function has
\* returned every fetched record has been handed over.
C16_ListenerReturnsAfterStop ==
    /\ consumesAfterStop <= 1
    /\ ~lsn_alive => lsnPc \notin {"terminated", "crashed"}
    /\ IsPrefix(handed, fetched)
    /\ lsnPc = "returned" => (~lsn_alive /\ handed = fetched /\ lsnBatch = << >>)

\* C17: a producer error raised while a consumed message is handled does not
\* end the listener thread: the listener goes on with the following messages.
C17_ListenerSurvivesFatalSend ==
    lastProcess.outcome = "throw" => lsnPc \in {"batch", "head", "consume", "returned"}

\* C18: consume returns between 0 and batch_size views, each wrapping a record
\* the client returned; when the client reports an error (-1) the returned
\* batch is empty.
C18_ConsumeBatch ==
    lastConsume.called =>
        /\ Len(lastConsume.returned) \in 0..BatchSize
        /\ \A i \in 1..Len(lastConsume.returned) :
              \E j \in 1..Len(fetched) : lastConsume.returned[i].m_message_ptr = fetched[j]
        /\ lastConsume.n = -1 => lastConsume.returned = << >>

\* The data records among a sequence of records
RECURSIVE DataOf(_)
DataOf(s) ==
    IF s = << >> THEN << >>
    ELSE IF Head(s).err = "NO_ERROR" THEN <<Head(s)>> \o DataOf(Tail(s))
    ELSE DataOf(Tail(s))

\* C20: kf::handler_frame::process forwards a message to do_process iff
\* message.ok(); end-of-partition and error messages are logged and never
\* reach do_process.
C20_ForwardIffOk ==
    /\ forwarded = DataOf(handed)
    /\ lastProcess.did \in {"do_process", "logged"} =>
          ((lastProcess.did = "do_process") <=> (lastProcess.view.m_message_ptr.err = "NO_ERROR"))
    /\ \A i \in 1..Len(forwarded) : forwarded[i].err \notin {"PARTITION_EOF", "TRANSPORT"}

\* A batch of an end-of-partition and a data record has been processed: only
\* the data record reached do_process.
C20_Witness ==
    /\ Len(handed) >= 2 /\ Len(forwarded) = 1
    /\ \E i \in 1..Len(handed) : handed[i].err = "PARTITION_EOF"
    /\ lastProcess.did = "do_process"

\* ---- message views

\* The live owning views that hold record r
Holders(r) == { s \in ViewSlots : viewObjs[s].live /\ viewObjs[s].owning
                                    /\ viewObjs[s].m_message_ptr = r }

\* C19: every record returned by consume is either held by exactly one live
\* owning view and not yet released, or held by none and released exactly
\* once (moves neither lose nor double-release it); the record of a
\* non-owning view is never released.
C19_ReleasedExactlyOnce ==
    /\ \A r \in 1..(nextRecord - 1) : released[r] + Cardinality(Holders(r)) = 1
    /\ released[DeliveryRecord] = 0

\* ---- producer: topic handles and queue length

\* C21: over any sequence of send / try_send calls on one producer, the
\* number of topic handles created equals the number of distinct subjects
\* used, each subject has its own handle, every attempt uses the handle cached
\* for its subject, and no cached handle is removed or replaced.
C21_TopicHandleOnce ==
    /\ [](/\ handlesCreated = Cardinality(usedSubjects)
          /\ DOMAIN m_topics = usedSubjects
          /\ \A a, b \in DOMAIN m_topics : m_topics[a] = m_topics[b] => a = b
          /\ prodCall.handle # 0 => prodCall.handle = m_topics[prodCall.msg.subject])
    /\ [][ \A n \in DOMAIN m_topics :
              n \in DOMAIN m_topics' /\ m_topics'[n] = m_topics[n] ]_vars

\* Both subjects have been used, the latest call re-using the handle made for
\* the first one while the queue already holds a record of that subject.
C21_Witness ==
    /\ handlesCreated = 2
    /\ prodCall.handle = 1
    /\ prodCall.attempts >= 1
    /\ queue # << >> /\ Head(queue).topic = prodCall.msg.subject

\* C22: when two threads send through one producer at the same time, at most
\* one topic handle is created per subject and no thread reads or modifies
\* m_topics while another thread is modifying it.
C22_ConcurrentTopicSafe ==
    /\ ~mtRace
    /\ \A n \in Subjects : mtCreatedFor[n] <= 1

\* C23: the metrics registry is thread-safe: no map of the registry is accessed
\* while another thread modifies it, every name a thread referenced is
\* registered in its map once the calls have returned, and every increment is
\* counted.
C23_MetricsThreadSafe ==
    /\ ~metRace
    /\ ~metCrashed
    /\ (\A t \in MetricThreads : metPc[t] = "idle") =>
          /\ \A n \in MetricNames : counterValue[n] = metIncrements[n]
          /\ \A n \in MetricNames : metIncrements[n] > 0 => n \in m_counters

C25_WindowBound ==
    tbReplenishCalls = 0 => surplus <= m_limit * MsPerSec

\* C26: after T >= 2 seconds of back-to-back take(1) calls the granted tokens
\* lie in [rate * T - limit, rate * T + limit].
C26_ContinuousRate ==
    (tbContinuous /\ clock >= 2 * MsPerSec) =>
        /\ granted * MsPerSec >= m_rate * clock - m_limit * MsPerSec
        /\ granted * MsPerSec <= m_rate * clock + m_limit * MsPerSec


\* ---- routing over rule lists

\* The indexes of the rules that emitted routeOut's elements, in output order:
\* element i of routeOut carries the subject of exactly one rule.
EmitterOf(i) == CHOOSE k \in 1..Len(m_rules) : m_rules[k].subject = routeOut[i].subject

\* C27: the rules a router holds have unique priorities in ascending order
\* from construction on, and route returns its outputs in ascending order of
\* the priority of the rule that emitted each.
C27_PriorityOrder ==
    /\ [](/\ \A i, j \in 1..Len(m_rules) : i < j => m_rules[i].priority < m_rules[j].priority
          /\ \A i \in 1..Len(routeOut) :
                /\ \E k \in 1..Len(m_rules) : m_rules[k].subject = routeOut[i].subject
                /\ is_allowed(routeIn, m_rules[EmitterOf(i)])
          /\ \A i, j \in 1..Len(routeOut) :
                i < j => m_rules[EmitterOf(i)].priority < m_rules[EmitterOf(j)].priority)
    /\ [][m_rules' = m_rules]_vars

\* Two rules emitted for one message.
C27_Witness ==
    /\ Len(routeOut) = 2
    /\ routeOut[1].subject = m_rules[1].subject
    /\ routeOut[2].subject = m_rules[2].subject
    /\ m_rules[1].action # m_rules[2].action


\* The rule with index k has a condition other than Everything.
NonWildcard(k) == m_rules[k].condition # Everything

\* Rule k matches routeIn as its action and its condition (key, value) say.
Matches(k) ==
    LET key == m_rules[k].condition[1]
        value == m_rules[k].condition[2]
        has == key \in DOMAIN routeIn.properties
    IN  IF m_rules[k].action = "allow"
        THEN has /\ routeIn.properties[key] = value
        ELSE ~has \/ routeIn.properties[key] # value

\* The outputs routeOut holds for rule k.
CopiesFor(k) == { i \in 1..Len(routeOut) : routeOut[i].subject = m_rules[k].subject }

\* C29: for a rule with a non-wildcard condition (k, v), an allow rule matches
\* iff the message has property k with value v and a deny rule iff property k
\* is absent or differs from v; a matching rule emits one copy of the message
\* that differs from it in the subject only, which is the rule's; the rules
\* are left as they were.
C29_ExactMatch ==
    /\ [](routeIn # NoMsg =>
            \A k \in 1..Len(m_rules) : NonWildcard(k) =>
               /\ Cardinality(CopiesFor(k)) = (IF Matches(k) THEN 1 ELSE 0)
               /\ \A i \in CopiesFor(k) :
                     routeOut[i] = [routeIn EXCEPT !.subject = m_rules[k].subject])
    /\ [][m_rules' = m_rules]_vars

\* A deny rule on an absent property and an allow rule on a present one both
\* emitted for a message with a key and a payload.
C29_Witness ==
    /\ routeIn # NoMsg /\ Len(m_rules) = 2
    /\ m_rules[1].action = "deny" /\ m_rules[1].condition = <<"origin", "x">>
    /\ m_rules[2].action = "allow" /\ m_rules[2].condition = <<"type", "heartbeat">>
    /\ DOMAIN routeIn.properties = {"type"}
    /\ routeIn.payload # << >> /\ routeIn.subject = "other"
    /\ Len(routeOut) = 2

C28_GetNorthbound ==
    [][ getCall' # getCall =>
          /\ m_interfaces' = m_interfaces
          /\ getCall'.result \in {"unknown_interface", "type_mismatch", "returned"}
          /\ getCall'.result = "unknown_interface" <=> getCall'.name \notin DOMAIN m_interfaces
          /\ getCall'.result = "type_mismatch" <=>
                (/\ getCall'.name \in DOMAIN m_interfaces
                 /\ sink_type(m_interfaces[getCall'.name]) # getCall'.type)
          /\ getCall'.result = "returned" => getCall'.sink = m_interfaces[getCall'.name] ]_vars

\* A sink of another class than the one asked for was found under the name,
\* next to another attached sink.
C28_Witness ==
    /\ getCall.result = "type_mismatch"
    /\ getCall.name \in DOMAIN m_interfaces
    /\ Cardinality(DOMAIN m_interfaces) >= 2


\* ---- malformed frames

\* The bytes a frame of the handler must at least have: the length prefix,
\* and for the telemetry handler the type field.
HeaderSize(type) == IF type = "passthrough" THEN LengthPrefixSize ELSE MinimumLength

\* C31: when the frame at the head of the buffer has a length prefix below
\* the header size it must contain, the process call drops the connection and
\* forwards nothing.  (Nothing was consumed yet, so the buffer starts with the
\* first frame of the stream.)
C31_ShortLengthIsProtocolError ==
    [][ (/\ tcpPc = "drain"
         /\ consumedLog = << >>
         /\ Len(buffer) >= HeaderSize(handlerType)
         /\ dat_length(buffer) < HeaderSize(handlerType))
           => (tcpPc' = "dropped" /\ northbound' = northbound) ]_vars


\* The frame at the head of the buffer is complete and carries a type that is
\* neither heartbeat nor dyn_message.
UnknownTypeAtHead ==
    /\ handlerType = "telemetry"
    /\ Len(buffer) >= MinimumLength
    /\ dat_length(buffer) >= MinimumLength
    /\ Len(buffer) >= dat_length(buffer)
    /\ as_u16(buffer, 2) \notin {TypeHeartbeat, TypeDynMessage}

\* C32: a complete telemetry frame with an unknown type makes the handler
\* raise: the connection is dropped and no message of that frame reaches the
\* cache.
C32_UnknownTypeRaises ==
    [][ (tcpPc = "drain" /\ UnknownTypeAtHead)
           => (lastCall'.thrown /\ tcpPc' = "dropped" /\ northbound' = northbound) ]_vars

\* An unknown type was met after a well-formed frame had been forwarded.
C32_Witness ==
    /\ handlerType = "telemetry"
    /\ tcpPc = "dropped"
    /\ UnknownTypeAtHead
    /\ Len(northbound) = 1
    /\ consumedLog # << >>


\* ---- metrics of handler::send

\* The sum of the metrics of one name, over all labels.
RECURSIVE SumKeys(_, _)
SumKeys(st, keys) ==
    IF keys = {} THEN 0
    ELSE LET k == CHOOSE x \in keys : TRUE IN st[k] + SumKeys(st, keys \ {k})

MetricTotal(st, name) == SumKeys(st, { k \in DOMAIN st : k[1] = name })

\* The value of one metric with one label.
Metric(st, name, label) ==
    IF <<name, label[1], label[2]>> \in DOMAIN st THEN st[<<name, label[1], label[2]>>] ELSE 0

\* The frame at the head of the buffer is a complete telemetry frame that
\* handler::do_process passes to send.
SendableAtHead ==
    /\ handlerType = "telemetry"
    /\ tcpPc = "drain"
    /\ Len(buffer) >= MinimumLength
    /\ dat_length(buffer) >= MinimumLength
    /\ Len(buffer) >= dat_length(buffer)
    /\ \/ as_u16(buffer, 2) = TypeDynMessage
       \/ as_u16(buffer, 2) = TypeHeartbeat /\ dat_length(buffer) >= 28

\* The outputs of the routing that this step handed to cache.send.
RoutedNow == SubSeq(northbound', Len(northbound) + 1, Len(northbound'))

RECURSIVE PayloadBytes(_)
PayloadBytes(ms) == IF ms = << >> THEN 0 ELSE Len(Head(ms).payload) + PayloadBytes(Tail(ms))

\* C33: for a message passed to the telemetry handler's send, each routed
\* output adds 1 to exactly one of process_messages_total{subject} and
\* drop_messages_total{load_shed}, and its payload size to the matching bytes
\* counter; drop_messages_total{not_needed} grows by 1 iff there is no output.
C33_MetricsPerOutput ==
    [][ SendableAtHead =>
          /\ (MetricTotal(stats', "process_messages_total") - MetricTotal(stats, "process_messages_total"))
                + (Metric(stats', "drop_messages_total", LabelLoadShed)
                      - Metric(stats, "drop_messages_total", LabelLoadShed))
             = Len(RoutedNow)
          /\ (MetricTotal(stats', "process_bytes_total") - MetricTotal(stats, "process_bytes_total"))
                + (Metric(stats', "drop_bytes_total", LabelLoadShed)
                      - Metric(stats, "drop_bytes_total", LabelLoadShed))
             = PayloadBytes(RoutedNow)
          /\ \A i \in 1..Len(RoutedNow) :
                Metric(stats', "process_messages_total", LabelSubject(RoutedNow[i].subject))
                   - Metric(stats, "process_messages_total", LabelSubject(RoutedNow[i].subject)) \in {0, 1}
          /\ (Metric(stats', "drop_messages_total", LabelNotNeeded)
                 - Metric(stats, "drop_messages_total", LabelNotNeeded))
             = (IF RoutedNow = << >> THEN 1 ELSE 0) ]_vars

\* The positions of the routed outputs for which cache.send gave the answer a.
Answered(a) == { i \in 1..Len(RoutedNow) : lastCall'.res[i] = a }

RECURSIVE BytesAt(_, _)
BytesAt(ms, idx) ==
    IF idx = {} THEN 0
    ELSE LET i == CHOOSE x \in idx : TRUE IN Len(ms[i].payload) + BytesAt(ms, idx \ {i})

\* C33 (amended): for a message passed to the telemetry handler's send, each
\* routed output for which cache.send returned true adds 1 to
\* process_messages_total{subject} and its payload size to process_bytes_total,
\* each for which it returned false adds them to the load_shed drop counters,
\* and an output for which cache.send raised adds nothing and ends the loop;
\* the not_needed drop counter grows by 1 iff routing produced no output.
C33_MetricsPerReturnedSend ==
    [][ SendableAtHead =>
          /\ \A i \in Answered("true") :
                Metric(stats', "process_messages_total", LabelSubject(RoutedNow[i].subject))
                   > Metric(stats, "process_messages_total", LabelSubject(RoutedNow[i].subject))
          /\ MetricTotal(stats', "process_messages_total") - MetricTotal(stats, "process_messages_total")
                = Cardinality(Answered("true"))
          /\ MetricTotal(stats', "process_bytes_total") - MetricTotal(stats, "process_bytes_total")
                = BytesAt(RoutedNow, Answered("true"))
          /\ Metric(stats', "drop_messages_total", LabelLoadShed)
                - Metric(stats, "drop_messages_total", LabelLoadShed)
                = Cardinality(Answered("false"))
          /\ Metric(stats', "drop_bytes_total", LabelLoadShed)
                - Metric(stats, "drop_bytes_total", LabelLoadShed)
                = BytesAt(RoutedNow, Answered("false"))
          /\ Answered("throw") # {} => (lastCall'.thrown /\ Answered("throw") = {Len(RoutedNow)})
          /\ (Metric(stats', "drop_messages_total", LabelNotNeeded)
                 - Metric(stats, "drop_messages_total", LabelNotNeeded))
             = (IF RoutedNow = << >> THEN 1 ELSE 0) ]_vars

\* One output was counted as processed and a later one as shed.
C33_Witness ==
    /\ handlerType = "telemetry"
    /\ Len(northbound) = 2
    /\ Metric(stats, "process_messages_total", LabelSubject(northbound[1].subject)) = 1
    /\ Metric(stats, "drop_messages_total", LabelLoadShed) = 1
    /\ Metric(stats, "drop_bytes_total", LabelLoadShed) = Len(northbound[2].payload)
    /\ Len(northbound[2].payload) > 0


\* ---- destruction of a producer

\* The destructor's events are in the order flush, stop, join, destroy; the
\* stop is left out exactly when the owner had called stop() before.
DtorEvents == SelectSeq(lifeLog, LAMBDA e : e # "user_stop")

C34_Order ==
    IF \E i \in 1..Len(lifeLog) : lifeLog[i] = "user_stop"
    THEN IsPrefix(DtorEvents, <<"flush", "join", "destroy">>)
    ELSE IsPrefix(DtorEvents, <<"flush", "stop", "join", "destroy">>)

\* C34: a producer's destructor flushes first, with a deadline of 5 s, then
\* tells the poller to stop unless stop() had been called, and the poller
\* thread has ended before the client handle is destroyed: the poller never
\* polls a destroyed handle, and it ends within one poll timeout (1 s) of the
\* flag being cleared.
C34_DestructorOrder ==
    /\ C34_Order
    /\ flushElapsed <= FlushTimeoutSec
    /\ handleDestroyed => pollerPc = "exited"
    /\ ~polledDestroyed
    /\ sinceStop <= PollTimeoutSec
    /\ dtorPc = "destroyed" => (~m_keep_alive /\ handleDestroyed)

\* The destructor stopped a poller that was in the middle of a poll, and ran
\* to its end.
C34_Witness ==
    /\ dtorPc = "destroyed"
    /\ lifeLog = <<"flush", "stop", "join", "destroy">>
    /\ sinceStop = PollTimeoutSec
    /\ flushElapsed > 0


\* ---- the default rules in the telemetry handler

\* C35: with the default rules every message the telemetry handler passes to
\* send is routed to exactly one output: cache.send is called once for each
\* complete frame and the not_needed drop counter is never incremented.
C35_DefaultRulesOneOutput ==
    /\ [](Metric(stats, "drop_messages_total", LabelNotNeeded) = 0)
    /\ [][ SendableAtHead => Len(RoutedNow) = 1 ]_vars
    /\ [][ \A msg \in RouterMessages : Len(route(m_rules, msg)) = 1 ]_vars

\* Two complete frames, a heartbeat and a dyn_message, were each sent once.
C35_Witness ==
    /\ handlerType = "telemetry"
    /\ Len(northbound) = 2
    /\ consumedLog = <<28, 6>>
    /\ northbound[1].subject = "heartbeats"
    /\ northbound[2].subject = "dev-test"


\* C36: a service built without a southbound interface runs its daemon ticks
\* and the attached watchdog closure never touches the missing southbound:
\* the closure is never run on the null pointer and the process never faults
\* on it.
C36_NoSouthboundNeverAccessed ==
    ~hasSouthbound => (svcPc # "crashed" /\ lastWatchdog = "none")


\* C37: try_send returns true only if the enqueue reported success: a status
\* that is neither success nor queue-full makes it raise, so true is never
\* returned for a message that was not enqueued.
C37_TrueOnlyIfEnqueued ==
    prodCall.op = "try_send" =>
        /\ prodCall.result = "true" =>
              (prodCall.status = "NO_ERROR" /\ prodCall.enqueued = 1)
        /\ prodCall.status \notin {"NO_ERROR", "QUEUE_FULL"} => prodCall.result = "thrown"


\* C38: the example's message handler raises SIGINT at an end of partition
\* only if a record was processed since its previous raise, and whatever
\* records and ends of partitions the listener processes before the daemon's
\* tick stops it, the raised SIGINTs never make the SIGINT handler abort.
C38_SelfRaiseNeverAborts ==
    /\ [](~aborted)
    /\ [][ exRaises' # exRaises => (exLast'.kind = "eof" /\ exDataSinceRaise > 0) ]_vars


\* C39: when one sink's send raises during cache.send(m), the other attached
\* sinks are still called with m: after a send in which a sink raised, every
\* attached sink has been called once with m.
C39_ThrowDoesNotSkipSinks ==
    cacheResult = "thrown" =>
        \A n \in DOMAIN cacheRet : cacheCalls[n] = 1 /\ cacheGot[n] = cacheMsg


\* C40: whatever take(n) and replenish() calls were made on a bucket with
\* limit L, the stored tokens never exceed L; each replenish adds
\* min(rate * time since the previous replenish, L), in whole tokens, and
\* moves last_replenished to now.
C40_StoredNeverAboveLimit ==
    /\ [](m_tokens <= m_limit)
    /\ [][ m_last_replenished' # m_last_replenished =>
             LET whole == (m_rate * (clock' - m_last_replenished)) \div MsPerSec
             IN  /\ m_last_replenished' = clock'
                 /\ m_tokens' - (IF tbReplenishCalls' # tbReplenishCalls
                                 THEN m_tokens ELSE m_tokens - lastTake'.n)
                       = (IF whole < m_limit THEN whole ELSE m_limit) ]_vars
====
